---------------------------- MODULE Spec2Model ----------------------------
(***************************************************************************)
(* EventifyIt: the durable image-to-calendar pipeline (src/workflow.ts),   *)
(* the services it calls (services/validation.ts, services/calendar.ts)    *)
(* and the stores it reads and writes (R2 IMAGES, KV SESSION_KV, D1 DB,    *)
(* the remote calendar service).                                          *)
(*                                                                         *)
(* Every `await` inside a step callback is one action, so that a failure,  *)
(* an engine restart or another run may fall between any two of them.      *)
(* An absent value (null / undefined) is the empty sequence None, a        *)
(* present value x is <<x>>.                                               *)
(***************************************************************************)
EXTENDS Integers, Sequences, FiniteSets, TLC

(***************************************************************************)
(* Bounds of the model                                                     *)
(***************************************************************************)
\* retries the step engine grants a failing step before the run errors
RetryLimit == 1
\* engine restarts (process eviction / resume) explored per behaviour
MaxRestarts == 1
\* last instant of the model clock
MaxTime == 2
\* most rows of one busy hour a table events under query holds
MaxFill == 12
\* most 'processing' events one progress stream writes
MaxPolls == 2

None == <<>>
Some(x) == <<x>>
Val(o) == o[1]

RunIds == {1, 2}
Users == {"anonymous", "u1"}

\* the five named steps of EventifyWorkflow.run, in program order
StepNames ==
  << "extract-event-data", "validate-event", "check-conflicts",
     "create-calendar-event", "save-and-cleanup" >>

NumSteps == Len(StepNames)


(***************************************************************************)
(* services/validation.ts                                                  *)
(*                                                                         *)
(* Strings the regular expressions take apart are records of their parts:  *)
(*   date text  [fmt |-> "iso", y, m, d]          YYYY-MM-DD               *)
(*              [fmt |-> "slash", m, d, y, ylen]  M/D/YY .. M/D/YYYY       *)
(*              [fmt |-> "month", m, d, year]     "March 5[, 2025]"        *)
(*              [fmt |-> "other", y, m, d]        text only Date() parses  *)
(*              [fmt |-> "junk"]                  nothing parses           *)
(*   time text  [fmt |-> "24h", h, m]             H:MM / HH:MM             *)
(*              [fmt |-> "ampm", h, m, pm]        H[:MM] am|pm             *)
(*              [fmt |-> "junk"]                                           *)
(* A parsed date is [y, ylen, m, d] (ylen: digits of the year as printed), *)
(* a parsed time is <<h, m>>.                                              *)
(***************************************************************************)

\* new Date() of the processing host, as a parsed date (UTC calendar day)
TodayDate == [y |-> 2025, ylen |-> 4, m |-> 3, d |-> 5]

getTodayDate == TodayDate

\* mutant of fullYear: the year digits are kept as written
fullYearAsWritten(year, len) == [y |-> year, ylen |-> len]

\* const fullYear = year.length === 2 ? `20${year}` : year
fullYear(year, len) ==
  IF len = 2 THEN [y |-> 2000 + year, ylen |-> 4] ELSE [y |-> year, ylen |-> len]

parseDate(dateStr, defaultYear) ==
  IF dateStr = None THEN None
  ELSE LET s == Val(dateStr) IN
    CASE s.fmt = "iso" ->
           Some([y |-> s.y, ylen |-> 4, m |-> s.m, d |-> s.d])
      [] s.fmt = "slash" ->
           Some([y    |-> fullYear(s.y, s.ylen).y,
                 ylen |-> fullYear(s.y, s.ylen).ylen,
                 m    |-> s.m,
                 d    |-> s.d])
      [] s.fmt = "month" ->
           Some([y    |-> IF s.year = None THEN defaultYear ELSE Val(s.year),
                 ylen |-> 4,
                 m    |-> s.m,
                 d    |-> s.d])
      [] s.fmt = "other" ->
           Some([y |-> s.y, ylen |-> 4, m |-> s.m, d |-> s.d])
      [] OTHER -> None

parseTime(timeStr) ==
  IF timeStr = None THEN None
  ELSE LET s == Val(timeStr) IN
    CASE s.fmt = "24h" -> Some(<<s.h, s.m>>)
      [] s.fmt = "ampm" ->
           LET mins   == IF s.m = None THEN 0 ELSE Val(s.m)
               hour24 == IF s.pm /\ s.h # 12 THEN s.h + 12
                         ELSE IF ~s.pm /\ s.h = 12 THEN 0
                         ELSE s.h
           IN Some(<<hour24, mins>>)
      [] OTHER -> None

\* an offset text "+hh:mm" / "-hh:mm" is [sign, h, m]
EST == [sign |-> "-", h |-> 5, m |-> 0]

getTimezoneOffset(timezone) ==
  CASE timezone = "America/New_York"    -> EST
    [] timezone = "America/Chicago"     -> [sign |-> "-", h |-> 6, m |-> 0]
    [] timezone = "America/Denver"      -> [sign |-> "-", h |-> 7, m |-> 0]
    [] timezone = "America/Los_Angeles" -> [sign |-> "-", h |-> 8, m |-> 0]
    [] timezone = "America/Phoenix"     -> [sign |-> "-", h |-> 7, m |-> 0]
    [] timezone = "America/Anchorage"   -> [sign |-> "-", h |-> 9, m |-> 0]
    [] timezone = "Pacific/Honolulu"    -> [sign |-> "-", h |-> 10, m |-> 0]
    [] timezone = "UTC"                 -> [sign |-> "+", h |-> 0, m |-> 0]
    [] timezone = "Europe/London"       -> [sign |-> "+", h |-> 0, m |-> 0]
    [] timezone = "Europe/Paris"        -> [sign |-> "+", h |-> 1, m |-> 0]
    [] timezone = "Asia/Tokyo"          -> [sign |-> "+", h |-> 9, m |-> 0]
    [] OTHER                            -> EST

\* mutant of addOneHour: the hour is not wrapped at midnight
addOneHourUnwrapped(time) == << time[1] + 1, time[2] >>

addOneHour(time) == << (time[1] + 1) % 24, time[2] >>

\* the description is the list of its lines (joined with "\n" in the code)
buildDescription(raw) ==
  (IF raw.description = None THEN << >> ELSE << Val(raw.description) >>)
    \o << "---", "Created by EventifyIt on Cloudflare" >>

\* `${date}T${hh}:${mm}:${ss}${tzOffset}`
DateTime(date, h, mi, s, off) ==
  [date |-> date, h |-> h, mi |-> mi, s |-> s, off |-> off]

DaysIn(y, m) ==
  IF m = 2 THEN (IF (y % 4 = 0 /\ y % 100 # 0) \/ y % 400 = 0 THEN 29 ELSE 28)
  ELSE IF m \in {4, 6, 9, 11} THEN 30 ELSE 31

\* z.string().datetime({ offset: true }): four year digits, a calendar date,
\* a time of day
IsDateTime(dt) ==
  /\ dt.date.ylen = 4
  /\ dt.date.m \in 1..12
  /\ dt.date.d >= 1 /\ dt.date.d <= DaysIn(dt.date.y, dt.date.m)
  /\ dt.h \in 0..23 /\ dt.mi \in 0..59 /\ dt.s \in 0..59

ValidatedEventSchema(event) ==
  /\ event.title # ""
  /\ IsDateTime(event.startDateTime)
  /\ IsDateTime(event.endDateTime)

\* mutant of titleOf: a missing title is not replaced
titleAsGiven(title) == IF title = None THEN "" ELSE Val(title)

\* raw.title || 'Untitled Event'
titleOf(title) == IF title = None THEN "Untitled Event" ELSE Val(title)

\* mutant of isAllDayOf: the flag is left at false
isAllDayNever(startTime) == FALSE

\* const isAllDay = !startTime
isAllDayOf(startTime) == startTime = None

\* [ok |-> TRUE, event |-> e] for a returned event, [ok |-> FALSE] for the
\* thrown `Validation failed` error.  raw.location is the trimmed text, None
\* when it is missing or blank (raw.location?.trim() || undefined).
validateAndNormalizeEvent(raw, timezone) ==
  LET currentYear == TodayDate.y
      sd          == parseDate(raw.start_date, currentYear)
      startDate   == IF sd = None THEN getTodayDate ELSE Val(sd)
      ed          == parseDate(raw.end_date, currentYear)
      endDate     == IF ed = None THEN startDate ELSE Val(ed)
      startTime   == parseTime(raw.start_time)
      endTime     == parseTime(raw.end_time)
      isAllDay    == isAllDayOf(startTime)
      tzOffset    == getTimezoneOffset(timezone)
      start       == IF startTime = None THEN <<9, 0>> ELSE Val(startTime)
      end         == IF endTime = None THEN addOneHour(start) ELSE Val(endTime)
      startDateTime ==
        IF isAllDay THEN DateTime(startDate, 0, 0, 0, tzOffset)
                    ELSE DateTime(startDate, start[1], start[2], 0, tzOffset)
      endDateTime ==
        IF isAllDay THEN DateTime(endDate, 23, 59, 59, tzOffset)
                    ELSE DateTime(endDate, end[1], end[2], 0, tzOffset)
      event == [ title         |-> titleOf(raw.title),
                 startDateTime |-> startDateTime,
                 endDateTime   |-> endDateTime,
                 isAllDay      |-> isAllDay,
                 timezone      |-> timezone,
                 location      |-> raw.location,
                 description   |-> buildDescription(raw) ]
  IN IF ValidatedEventSchema(event)
       THEN [ok |-> TRUE, event |-> event]
       ELSE [ok |-> FALSE]

\* event.startDateTime.split('T')[0]
DatePart(dt) == dt.date

\* mutant of toGoogleCalendarEvent: every event is sent with instant fields
toGoogleCalendarEventTimed(event) ==
  [ summary     |-> event.title,
    start       |-> [dateTime |-> event.startDateTime,
                     timeZone |-> event.timezone],
    end         |-> [dateTime |-> event.endDateTime,
                     timeZone |-> event.timezone],
    location    |-> event.location,
    description |-> event.description ]

toGoogleCalendarEvent(event) ==
  IF event.isAllDay
    THEN [ summary     |-> event.title,
           start       |-> [date |-> DatePart(event.startDateTime),
                            timeZone |-> event.timezone],
           end         |-> [date |-> DatePart(event.endDateTime),
                            timeZone |-> event.timezone],
           location    |-> event.location,
           description |-> event.description ]
    ELSE [ summary     |-> event.title,
           start       |-> [dateTime |-> event.startDateTime,
                            timeZone |-> event.timezone],
           end         |-> [dateTime |-> event.endDateTime,
                            timeZone |-> event.timezone],
           location    |-> event.location,
           description |-> event.description ]

(***************************************************************************)
(* SQLite compares the TEXT columns start_datetime / end_datetime byte by  *)
(* byte; on the fixed-width text of a schema-valid instant that is the     *)
(* lexicographic order of its fields, the offset last ('+' sorts before    *)
(* '-').                                                                   *)
(***************************************************************************)
SignRank(sign) == IF sign = "+" THEN 0 ELSE 1

TextKey(dt) ==
  << dt.date.y, dt.date.m, dt.date.d, dt.h, dt.mi, dt.s,
     SignRank(dt.off.sign), dt.off.h, dt.off.m >>

RECURSIVE LexLess(_, _)
LexLess(a, b) ==
  IF a = << >> \/ b = << >> THEN a = << >> /\ b # << >>
  ELSE IF Head(a) # Head(b) THEN Head(a) < Head(b)
  ELSE LexLess(Tail(a), Tail(b))

TextLess(dt1, dt2) == LexLess(TextKey(dt1), TextKey(dt2))


(***************************************************************************)
(* services/calendar.ts: the conflict query                                *)
(***************************************************************************)
\* LIMIT of the conflict query
Limit == 10

\* the rows of S as ORDER BY start_datetime lists them
RECURSIVE OrderByStart(_)
OrderByStart(S) ==
  IF S = {} THEN << >>
  ELSE LET first == CHOOSE x \in S :
                      \A y \in S : ~TextLess(y.start_datetime, x.start_datetime)
       IN << first >> \o OrderByStart(S \ {first})

FirstN(seq, n) == SubSeq(seq, 1, IF Len(seq) < n THEN Len(seq) ELSE n)

\* mutant of checkCalendarConflicts: the WHERE clause has no user_id test
checkCalendarConflictsAnyUser(db_events, userId, startDateTime, endDateTime) ==
  LET rows == { e \in db_events :
                  /\ TextLess(e.start_datetime, endDateTime)
                  /\ TextLess(startDateTime, e.end_datetime) }
      results == FirstN(OrderByStart(rows), Limit)
  IN [ i \in 1..Len(results) |->
         [ title         |-> results[i].title,
           start         |-> results[i].start_datetime,
           end           |-> results[i].end_datetime,
           googleEventId |-> results[i].google_event_id ] ]

\* mutant of checkCalendarConflicts: the list is always the empty one of the
\* catch block
checkCalendarConflictsEmpty(db_events, userId, startDateTime, endDateTime) ==
  << >>

checkCalendarConflicts(db_events, userId, startDateTime, endDateTime) ==
  LET rows == { e \in db_events :
                  /\ e.user_id = userId
                  /\ TextLess(e.start_datetime, endDateTime)
                  /\ TextLess(startDateTime, e.end_datetime) }
      results == FirstN(OrderByStart(rows), Limit)
  IN [ i \in 1..Len(results) |->
         [ title         |-> results[i].title,
           start         |-> results[i].start_datetime,
           end           |-> results[i].end_datetime,
           googleEventId |-> results[i].google_event_id ] ]

(***************************************************************************)
(* State                                                                   *)
(***************************************************************************)
VARIABLES
  runs,          \* workflow instances created (EVENTIFY_WORKFLOW.create)
  params,        \* event.payload of each instance
  pc,            \* position of each instance inside run()
  memo,          \* the engine's durable record of completed steps
  attempts,      \* failed attempts of the step in progress
  restarts,      \* engine restarts of the instance so far
  error,         \* the terminal error of an errored instance
  output,        \* the WorkflowResult of a completed instance
  token,         \* step 4: the callback's local `token`
  tokens,        \* refreshOAuthToken: the token endpoint's response
  IMAGES,        \* R2: keys of the stored images
  SESSION_KV,    \* KV: key -> entry
  events,        \* D1: rows of table events
  user_tokens,   \* D1: rows of table user_tokens, by user_id
  remoteEvents,  \* events the remote calendar service holds
  issued,        \* access tokens the identity provider has issued
  now,           \* the clock
  call,          \* the await the last action performed, and how it ended
  faulty,        \* whether the platform's calls can fail in this behaviour
  probe,         \* a service function applied on its own: input and result
  stream,        \* streamWorkflowProgress of instance 1: position, the local
                 \* `status`, the events written, whether the writer is closed
  auth           \* the OAuth flow: state keys in SESSION_KV, the callback
                 \* requests in progress, the sessions created

vars ==
  << runs, params, pc, memo, attempts, restarts, error, output, token, tokens,
     IMAGES, SESSION_KV, events, user_tokens, remoteEvents, issued, now,
     call, faulty, probe, stream, auth >>

imageKeyOf(r) == << "images", r >>
\* mutant of KvKey: the key leaves the instance id out
KvKeyShared(instanceId) == << "workflow", 1, "event" >>

\* `workflow:${event.instanceId}:event`
KvKey(instanceId) == << "workflow", instanceId, "event" >>

\* the keys namespace SESSION_KV is observed at
KvKeys == { << "workflow", r, "event" >> : r \in RunIds }

\* what the vision adapter may hand back (after parseEventJson)
RawStudyGroup ==
  [ title       |-> Some("Study Group"),
    start_date  |-> Some([fmt |-> "slash", m |-> 3, d |-> 5, y |-> 25, ylen |-> 2]),
    end_date    |-> None,
    start_time  |-> Some([fmt |-> "ampm", h |-> 2, m |-> None, pm |-> TRUE]),
    end_time    |-> None,
    location    |-> Some("Library"),
    description |-> None ]

RawUnknown ==
  [ title       |-> Some("Unknown Event"),
    start_date  |-> None,
    end_date    |-> None,
    start_time  |-> None,
    end_time    |-> None,
    location    |-> None,
    description |-> Some("Could not extract event details.") ]

\* a year of three digits: the assembled instant fails the schema
RawBadYear ==
  [ title       |-> Some("Gala"),
    start_date  |-> Some([fmt |-> "slash", m |-> 3, d |-> 5, y |-> 202, ylen |-> 3]),
    end_date    |-> None,
    start_time  |-> None,
    end_time    |-> None,
    location    |-> None,
    description |-> None ]

RawChoices == { RawStudyGroup, RawUnknown, RawBadYear }

\* a row an earlier run of u1 left in table events
StoredRow ==
  [ id                   |-> 1,
    user_id              |-> "u1",
    title                |-> "Office hours",
    start_datetime       |-> DateTime(TodayDate, 14, 30, 0, EST),
    end_datetime         |-> DateTime(TodayDate, 14, 45, 0, EST),
    is_all_day           |-> 0,
    location             |-> None,
    description          |-> << "---", "Created by EventifyIt on Cloudflare" >>,
    google_event_id      |-> 0,
    google_calendar_link |-> << "htmlLink", 0 >>,
    image_key            |-> << "images", 0 >> ]

\* the callback requests handleGoogleCallback serves
Callbacks == {1, 2}

\* no OAuth flow under way: no state key, no request, no session
NoAuth ==
  [ states   |-> {},
    minted   |-> 0,
    cb       |-> [ c \in Callbacks |->
                    [ pc |-> "idle", state |-> None, tokens |-> None ] ],
    sessions |-> {} ]

\* no progress stream is being followed
NoStream == [ pc |-> "off", status |-> None, events |-> << >>, closed |-> FALSE ]

\* The state once handleProcessImage has created the instances `created`.
\* The image of an instance is in the bucket or not (a key that does not
\* resolve); 'anonymous' (no session) has no row in user_tokens, a signed-in
\* user has the row the OAuth callback stored, expired or not.
InitOf(created) ==
  /\ runs = created
  /\ params \in [ RunIds -> [ userId : Users, timezone : {"America/New_York"} ] ]
  /\ \A r \in RunIds \ created : params[r].userId = "anonymous"
  /\ pc = [ r \in RunIds |-> "s1_get" ]
  /\ memo = [ r \in RunIds |-> [ i \in 1..NumSteps |-> None ] ]
  /\ attempts = [ r \in RunIds |-> 0 ]
  /\ restarts = [ r \in RunIds |-> 0 ]
  /\ error = [ r \in RunIds |-> None ]
  /\ output = [ r \in RunIds |-> None ]
  /\ token = [ r \in RunIds |-> None ]
  /\ tokens = [ r \in RunIds |-> None ]
  /\ IMAGES \in SUBSET { imageKeyOf(r) : r \in created }
  /\ SESSION_KV = [ k \in KvKeys |-> None ]
  /\ events \in { {}, {StoredRow} }
  /\ \E e \in 0..MaxTime :
       user_tokens =
         [ u \in Users |->
             IF u = "anonymous" THEN None
             ELSE Some([ accessToken |-> 1, refreshToken |-> 1, expiresAt |-> e ]) ]
  /\ remoteEvents = {}
  /\ issued = 1
  /\ now = 1
  /\ call = None

\* one instance, on a platform whose calls can fail
Init ==
  InitOf({1}) /\ faulty = TRUE /\ probe = None /\ stream = NoStream
    /\ auth = NoAuth


(***************************************************************************)
(* The step engine under run(): step.do(name, callback) runs the callback, *)
(* records its result durably when it returns, runs it again when it       *)
(* throws (the callbacks throw plain Errors only, so every throw counts as *)
(* retryable) and fails the instance when the retries are used up.  A      *)
(* restarted instance runs run() again from the top, and step.do of a      *)
(* recorded step returns the record without running the callback.          *)
(***************************************************************************)
\* mutant of Entry: the callback of save-and-cleanup begins with the deletes
EntryDeletesFirst(i) ==
  CASE i = 1 -> "s1_get"
    [] i = 2 -> "s2_validate"
    [] i = 3 -> "s3_query"
    [] i = 4 -> "s4_token"
    [] i = 5 -> "s5_imgdel"
    [] OTHER -> "return"

\* the first await of each step's callback; past the last step, the return
Entry(i) ==
  CASE i = 1 -> "s1_get"
    [] i = 2 -> "s2_validate"
    [] i = 3 -> "s3_query"
    [] i = 4 -> "s4_token"
    [] i = 5 -> "s5_insert"
    [] OTHER -> "return"

\* the step whose callback a position belongs to (0: none)
StepOf(p) ==
  CASE p \in {"s1_get", "s1_vision"} -> 1
    [] p = "s2_validate" -> 2
    [] p = "s3_query" -> 3
    [] p \in {"s4_token", "s4_refresh", "s4_update", "s4_create"} -> 4
    [] p \in {"s5_insert", "s5_imgdel", "s5_kvdel"} -> 5
    [] OTHER -> 0

\* mutant of NextStep: the publish step is awaited before the conflict check
NextStepSwapped(i) == IF i = 2 THEN 4 ELSE i + 1

\* run() awaits the step.do calls one after the other
NextStep(i) == i + 1

\* mutant of FirstPending: a re-run of run() consults no recorded result
FirstPendingFromTop(m) == 1

\* where a re-run of run() gets to: past every step.do whose result is recorded
FirstPending(m) ==
  IF \E i \in 1..NumSteps : m[i] = None
    THEN CHOOSE i \in 1..NumSteps :
           m[i] = None /\ \A j \in 1..(i - 1) : m[j] # None
    ELSE NumSteps + 1

\* whether the engine runs a throwing callback once more
ShouldRetry(failed) == failed < RetryLimit

\* mutant of Attempted: a failed attempt is not counted
AttemptedUncounted(failed) == failed

\* the failed attempts of a step after one more
Attempted(failed) == failed + 1

\* mutant of Aborted: the rejection of the publish step is caught and run()
\* goes on to the step after it
AbortedSwallowed(i) == IF i = 4 THEN Entry(i + 1) ELSE "errored"

\* where the instance is once step.do of step i has rejected: run() wraps no
\* step.do in try/catch, so the rejection ends run() and the instance errors
Aborted(i) == "errored"

\* the await `op` of instance r has ended: err is None, or the Error thrown
Awaited(r, op, err) == call' = Some([run |-> r, op |-> op, err |-> err])

\* the callback of step i returns result after its last await, op
StepDone(r, i, op, result) ==
  /\ Awaited(r, op, None)
  /\ memo' = [memo EXCEPT ![r][i] = Some(result)]
  /\ attempts' = [attempts EXCEPT ![r] = 0]
  /\ pc' = [pc EXCEPT ![r] = Entry(NextStep(i))]
  /\ token' = [token EXCEPT ![r] = None]
  /\ tokens' = [tokens EXCEPT ![r] = None]
  /\ error' = error

\* the callback of step i throws Error(msg) out of its await op
Throw(r, i, op, msg) ==
  /\ Awaited(r, op, Some(msg))
  /\ token' = [token EXCEPT ![r] = None]
  /\ tokens' = [tokens EXCEPT ![r] = None]
  /\ memo' = memo
  /\ IF ShouldRetry(attempts[r])
       THEN /\ attempts' = [attempts EXCEPT ![r] = Attempted(@)]
            /\ pc' = [pc EXCEPT ![r] = Entry(i)]
            /\ error' = error
       ELSE /\ attempts' = attempts
            /\ pc' = [pc EXCEPT ![r] = Aborted(i)]
            /\ error' = [error EXCEPT ![r] =
                           Some([step |-> StepNames[i], message |-> msg])]

\* the platform call behind the await op fails (a binding, the network or the
\* remote service) and the Error comes out of the callback of step i
Fault(r, i, op, msg) == faulty /\ Throw(r, i, op, msg)

\* the await op returns and the callback goes on to its next await, at p
Goto(r, op, p) ==
  /\ Awaited(r, op, None)
  /\ pc' = [pc EXCEPT ![r] = p]
  /\ UNCHANGED << memo, attempts, error >>

\* the engine is restarted while a callback is between two awaits
Resume(r) ==
  /\ r \in runs
  /\ faulty
  /\ pc[r] \notin {"complete", "errored"}
  /\ restarts[r] < MaxRestarts
  /\ pc[r] # Entry(FirstPending(memo[r]))
  /\ restarts' = [restarts EXCEPT ![r] = @ + 1]
  /\ pc' = [pc EXCEPT ![r] = Entry(FirstPending(memo[r]))]
  /\ token' = [token EXCEPT ![r] = None]
  /\ tokens' = [tokens EXCEPT ![r] = None]
  /\ call' = None
  /\ UNCHANGED << faulty, probe, stream, auth, runs, params, memo, attempts, error, output, IMAGES,
                  SESSION_KV, events, user_tokens, remoteEvents, issued, now >>

(***************************************************************************)
(* Step 1: extract-event-data                                              *)
(***************************************************************************)
\* this.env.IMAGES.get(imageKey)
ExtractGetImage(r) ==
  /\ r \in runs
  /\ pc[r] = "s1_get"
  /\ \/ /\ imageKeyOf(r) \in IMAGES
        /\ Goto(r, "IMAGES.get", "s1_vision")
        /\ UNCHANGED << token, tokens >>
     \/ /\ imageKeyOf(r) \notin IMAGES
        /\ Throw(r, 1, "IMAGES.get", "Image not found")
     \/ Fault(r, 1, "IMAGES.get", "R2 get failed")
  /\ UNCHANGED << faulty, probe, stream, auth, runs, params, restarts, output, IMAGES, SESSION_KV, events,
                  user_tokens, remoteEvents, issued, now >>

\* extractEventFromImage(this.env.AI, imageBytes)
ExtractVision(r) ==
  /\ r \in runs
  /\ pc[r] = "s1_vision"
  /\ \/ \E raw \in RawChoices : StepDone(r, 1, "AI.run", raw)
     \/ Fault(r, 1, "AI.run", "Vision model failed")
  /\ UNCHANGED << faulty, probe, stream, auth, runs, params, restarts, output, IMAGES, SESSION_KV, events,
                  user_tokens, remoteEvents, issued, now >>

(***************************************************************************)
(* Step 2: validate-event                                                  *)
(***************************************************************************)
\* JSON.stringify of a validated event: its defined properties, in order, as
\* << name, value >> pairs; an undefined property (no location) is left out
JSONstringify(event) ==
  << << "title", event.title >>,
     << "startDateTime", event.startDateTime >>,
     << "endDateTime", event.endDateTime >>,
     << "isAllDay", event.isAllDay >> >>
  \o (IF event.location = None THEN << >>
      ELSE << << "location", Val(event.location) >> >>)
  \o << << "description", event.description >>,
        << "timezone", event.timezone >> >>

ValidateEvent(r) ==
  /\ r \in runs
  /\ pc[r] = "s2_validate"
  /\ LET v == validateAndNormalizeEvent(Val(memo[r][1]), params[r].timezone) IN
       \/ /\ ~v.ok
          /\ Throw(r, 2, "validate", "Validation failed")
          /\ UNCHANGED SESSION_KV
       \/ /\ v.ok
          /\ SESSION_KV' = [SESSION_KV EXCEPT ![KvKey(r)] =
                              Some([value |-> JSONstringify(v.event), expirationTtl |-> 86400])]
          /\ StepDone(r, 2, "SESSION_KV.put", v.event)
       \/ /\ v.ok
          /\ Fault(r, 2, "SESSION_KV.put", "KV put failed")
          /\ UNCHANGED SESSION_KV
  /\ UNCHANGED << faulty, probe, stream, auth, runs, params, restarts, output, IMAGES, events, user_tokens,
                  remoteEvents, issued, now >>

(***************************************************************************)
(* Step 3: check-conflicts                                                 *)
(***************************************************************************)
\* mutant of TableRead: the query is answered from the rows the table held
\* when the instances were created
TableReadAtStart(db_events) == db_events \cap {StoredRow}

\* db.prepare(...).all(): the statement reads table events as it is when it
\* runs
TableRead(db_events) == db_events

CheckConflicts(r) ==
  /\ r \in runs
  /\ pc[r] = "s3_query"
  /\ LET validatedEvent == Val(memo[r][2]) IN
       \/ StepDone(r, 3, "DB.select events", checkCalendarConflicts(TableRead(events), params[r].userId,
                           validatedEvent.startDateTime,
                           validatedEvent.endDateTime))
       \/ Fault(r, 3, "DB.select events", "D1 query failed")
  /\ UNCHANGED << faulty, probe, stream, auth, runs, params, restarts, output, IMAGES, SESSION_KV, events,
                  user_tokens, remoteEvents, issued, now >>


(***************************************************************************)
(* Step 4: create-calendar-event                                           *)
(***************************************************************************)
\* mutant of getOAuthToken: a blank, never-expiring token instead of null
getOAuthTokenOrBlank(userId) ==
  IF user_tokens[userId] = None
    THEN Some([ accessToken |-> 0, refreshToken |-> 0, expiresAt |-> MaxTime ])
    ELSE user_tokens[userId]

\* SELECT ... FROM user_tokens WHERE user_id = ?; null when no row matches
getOAuthToken(userId) == user_tokens[userId]

\* mutant of isExpired: every attempt refreshes
isExpiredAlways(tok) == TRUE

\* mutant of isExpired: the comparison is written the other way round
isExpiredReversed(tok) == now < tok.expiresAt

\* token.expiresAt && new Date(token.expiresAt) < new Date()
isExpired(tok) == tok.expiresAt < now

\* getOAuthToken(userId), the missing-token throw and the expiry test
CreateGetToken(r) ==
  /\ r \in runs
  /\ pc[r] = "s4_token"
  /\ LET row == getOAuthToken(params[r].userId) IN
       \/ /\ row = None
          /\ Throw(r, 4, "DB.select user_tokens", "No OAuth token found")
       \/ /\ row # None
          /\ isExpired(Val(row))
          /\ token' = [token EXCEPT ![r] = row]
          /\ tokens' = tokens
          /\ Goto(r, "DB.select user_tokens", "s4_refresh")
       \/ /\ row # None
          /\ ~isExpired(Val(row))
          /\ token' = [token EXCEPT ![r] = row]
          /\ tokens' = tokens
          /\ Goto(r, "DB.select user_tokens", "s4_create")
       \/ Fault(r, 4, "DB.select user_tokens", "D1 select failed")
  /\ UNCHANGED << faulty, probe, stream, auth, runs, params, restarts, output, IMAGES, SESSION_KV, events,
                  user_tokens, remoteEvents, issued, now >>

\* mutant of CredentialKept: a rejected refresh drops the stored credential
CredentialCleared(stored, userId) == [stored EXCEPT ![userId] = None]

\* table user_tokens after the token endpoint answered !response.ok:
\* refreshOAuthToken throws before its UPDATE, the table is as before
CredentialKept(stored, userId) == stored

\* refreshOAuthToken: the POST to the token endpoint and the computed expiry
RefreshFetch(r) ==
  /\ r \in runs
  /\ pc[r] = "s4_refresh"
  /\ \/ /\ \E expires_in \in 1..MaxTime, rotated \in BOOLEAN :
             tokens' = [tokens EXCEPT ![r] =
               Some([ access_token  |-> issued + 1,
                      refresh_token |-> IF rotated THEN Some(issued + 1) ELSE None,
                      expiresAt     |-> now + expires_in ])]
        /\ issued' = issued + 1
        /\ token' = token
        /\ user_tokens' = user_tokens
        /\ Goto(r, "fetch token", "s4_update")
     \/ /\ Fault(r, 4, "fetch token", "Failed to refresh OAuth token")
        /\ issued' = issued
        /\ user_tokens' = CredentialKept(user_tokens, params[r].userId)
  /\ UNCHANGED << faulty, probe, stream, auth, runs, params, restarts, output, IMAGES, SESSION_KV, events,
                  remoteEvents, now >>

\* mutant of newRefreshToken: a blank when the endpoint returns none, as the
\* OAuth callback binds it
newRefreshTokenOrBlank(resp, refreshToken) ==
  IF resp.refresh_token # None THEN Val(resp.refresh_token) ELSE 0

\* const newRefreshToken = tokens.refresh_token || refreshToken
newRefreshToken(resp, refreshToken) ==
  IF resp.refresh_token # None THEN Val(resp.refresh_token) ELSE refreshToken

\* refreshOAuthToken: the UPDATE of user_tokens and the returned token
RefreshUpdate(r) ==
  /\ r \in runs
  /\ pc[r] = "s4_update"
  /\ LET resp == Val(tokens[r])
         fresh == [ accessToken  |-> resp.access_token,
                    refreshToken |-> newRefreshToken(resp, Val(token[r]).refreshToken),
                    expiresAt    |-> resp.expiresAt ]
         u == params[r].userId
     IN \/ /\ user_tokens' = IF user_tokens[u] # None
                               THEN [user_tokens EXCEPT ![u] = Some(fresh)]
                               ELSE user_tokens
           /\ token' = [token EXCEPT ![r] = Some(fresh)]
           /\ tokens' = tokens
           /\ Goto(r, "DB.update user_tokens", "s4_create")
        \/ /\ Fault(r, 4, "DB.update user_tokens", "D1 update failed")
           /\ user_tokens' = user_tokens
  /\ UNCHANGED << faulty, probe, stream, auth, runs, params, restarts, output, IMAGES, SESSION_KV, events,
                  remoteEvents, issued, now >>

\* mutant of RemoteEvent: the service recognises a repeated create of the same
\* instance (an idempotency key) and answers with the event it already holds
RemoteEventDeduplicated(r, accessToken, body) ==
  IF \E ev \in remoteEvents : ev.run = r /\ ev.body = body
    THEN CHOOSE ev \in remoteEvents : ev.run = r /\ ev.body = body
    ELSE [ id          |-> Cardinality(remoteEvents) + 1,
           run         |-> r,
           accessToken |-> accessToken,
           body        |-> body ]

\* what the remote service stores for an accepted create call
RemoteEvent(r, accessToken, body) ==
  [ id          |-> Cardinality(remoteEvents) + 1,
    run         |-> r,
    accessToken |-> accessToken,
    body        |-> body ]

\* the CalendarEventResponse of a stored remote event
Response(ev) ==
  [ id       |-> ev.id,
    htmlLink |-> << "htmlLink", ev.id >>,
    status   |-> "confirmed",
    summary  |-> ev.body.summary ]

\* mutant of accessTokenOf: the stored credential is read again for the call
accessTokenStored(r) == Val(user_tokens[params[r].userId]).accessToken

\* token.accessToken: of the credential the callback loaded, or of the one
\* refreshOAuthToken returned to it
accessTokenOf(r) == Val(token[r]).accessToken

\* createGoogleCalendarEvent(token.accessToken, validatedEvent, calendarId)
CreateEvent(r) ==
  /\ r \in runs
  /\ pc[r] = "s4_create"
  /\ LET body == toGoogleCalendarEvent(Val(memo[r][2]))
         ev   == RemoteEvent(r, accessTokenOf(r), body)
     IN \/ /\ remoteEvents' = remoteEvents \cup {ev}
           /\ StepDone(r, 4, "fetch calendar", Response(ev))
        \/ \* the service stored the event and the response never arrived
           /\ remoteEvents' = remoteEvents \cup {ev}
           /\ Fault(r, 4, "fetch calendar", "fetch failed")
        \/ /\ remoteEvents' = remoteEvents
           /\ Fault(r, 4, "fetch calendar", "OAUTH_EXPIRED")
        \/ /\ remoteEvents' = remoteEvents
           /\ Fault(r, 4, "fetch calendar", "Google Calendar API error")
  /\ UNCHANGED << faulty, probe, stream, auth, runs, params, restarts, output, IMAGES, SESSION_KV, events,
                  user_tokens, issued, now >>

(***************************************************************************)
(* Step 5: save-and-cleanup                                                *)
(***************************************************************************)
\* mutant of EventRow: the row's own id is bound to the google_event_id column
EventRowOwnId(r, validatedEvent, calendarResult) ==
  [ id                   |-> Cardinality(events) + 1,
    user_id              |-> params[r].userId,
    title                |-> validatedEvent.title,
    start_datetime       |-> validatedEvent.startDateTime,
    end_datetime         |-> validatedEvent.endDateTime,
    is_all_day           |-> IF validatedEvent.isAllDay THEN 1 ELSE 0,
    location             |-> validatedEvent.location,
    description          |-> validatedEvent.description,
    google_event_id      |-> Cardinality(events) + 1,
    google_calendar_link |-> calendarResult.htmlLink,
    image_key            |-> imageKeyOf(r) ]

\* mutant of EventRow: title, location and description are taken from the
\* raw extraction again
EventRowFromRaw(r, validatedEvent, calendarResult) ==
  [ id                   |-> Cardinality(events) + 1,
    user_id              |-> params[r].userId,
    title                |-> Val(memo[r][1]).title,
    start_datetime       |-> validatedEvent.startDateTime,
    end_datetime         |-> validatedEvent.endDateTime,
    is_all_day           |-> IF validatedEvent.isAllDay THEN 1 ELSE 0,
    location             |-> Val(memo[r][1]).location,
    description          |-> Val(memo[r][1]).description,
    google_event_id      |-> calendarResult.id,
    google_calendar_link |-> calendarResult.htmlLink,
    image_key            |-> imageKeyOf(r) ]

\* the row INSERT INTO events binds
EventRow(r, validatedEvent, calendarResult) ==
  [ id                   |-> Cardinality(events) + 1,
    user_id              |-> params[r].userId,
    title                |-> validatedEvent.title,
    start_datetime       |-> validatedEvent.startDateTime,
    end_datetime         |-> validatedEvent.endDateTime,
    is_all_day           |-> IF validatedEvent.isAllDay THEN 1 ELSE 0,
    location             |-> validatedEvent.location,
    description          |-> validatedEvent.description,
    google_event_id      |-> calendarResult.id,
    google_calendar_link |-> calendarResult.htmlLink,
    image_key            |-> imageKeyOf(r) ]

\* mutant of RemoteKept: a failing save-and-cleanup deletes the remote
\* events its run created
RemoteRolledBack(remote, r) == { ev \in remote : ev.run # r }

\* the remote events after an await of save-and-cleanup threw: the callback
\* has no catch and no call to the calendar service, so they are as before
RemoteKept(remote, r) == remote

\* INSERT INTO events
SaveInsert(r) ==
  /\ r \in runs
  /\ pc[r] = "s5_insert"
  /\ \/ /\ events' = events \cup {EventRow(r, Val(memo[r][2]), Val(memo[r][4]))}
        /\ Goto(r, "DB.insert events", "s5_imgdel")
        /\ UNCHANGED << token, tokens >>
        /\ remoteEvents' = remoteEvents
     \/ /\ events' = events
        /\ Fault(r, 5, "DB.insert events", "D1 insert failed")
        /\ remoteEvents' = RemoteKept(remoteEvents, r)
  /\ UNCHANGED << faulty, probe, stream, auth, runs, params, restarts, output, IMAGES, SESSION_KV,
                  user_tokens, issued, now >>

\* this.env.IMAGES.delete(imageKey)
SaveDeleteImage(r) ==
  /\ r \in runs
  /\ pc[r] = "s5_imgdel"
  /\ \/ /\ IMAGES' = IMAGES \ {imageKeyOf(r)}
        /\ Goto(r, "IMAGES.delete", "s5_kvdel")
        /\ UNCHANGED << token, tokens >>
        /\ remoteEvents' = remoteEvents
     \/ /\ IMAGES' = IMAGES
        /\ Fault(r, 5, "IMAGES.delete", "R2 delete failed")
        /\ remoteEvents' = RemoteKept(remoteEvents, r)
  /\ UNCHANGED << faulty, probe, stream, auth, runs, params, restarts, output, SESSION_KV, events,
                  user_tokens, issued, now >>

\* mutant of KvDelete: the delete names a key no put has written
KvDeleteOtherKey(kv, key) == kv

\* KVNamespace.delete(key)
KvDelete(kv, key) == [kv EXCEPT ![key] = None]

\* this.env.SESSION_KV.delete(`workflow:${event.instanceId}:event`)
SaveDeleteCache(r) ==
  /\ r \in runs
  /\ pc[r] = "s5_kvdel"
  /\ \/ /\ SESSION_KV' = KvDelete(SESSION_KV, KvKey(r))
        /\ StepDone(r, 5, "SESSION_KV.delete", "void")
        /\ remoteEvents' = remoteEvents
     \/ /\ SESSION_KV' = SESSION_KV
        /\ Fault(r, 5, "SESSION_KV.delete", "KV delete failed")
        /\ remoteEvents' = RemoteKept(remoteEvents, r)
  /\ UNCHANGED << faulty, probe, stream, auth, runs, params, restarts, output, IMAGES, events, user_tokens,
                  issued, now >>

(***************************************************************************)
(* The return of run()                                                     *)
(***************************************************************************)
\* mutant of WorkflowResult: the conflict list is returned as it is, empty or
\* not
WorkflowResultWithList(validatedEvent, conflicts, calendarResult) ==
  [ success      |-> TRUE,
    event        |-> validatedEvent,
    calendarLink |-> calendarResult.htmlLink,
    conflicts    |-> Some(conflicts) ]

WorkflowResult(validatedEvent, conflicts, calendarResult) ==
  [ success      |-> TRUE,
    event        |-> validatedEvent,
    calendarLink |-> calendarResult.htmlLink,
    conflicts    |-> IF Len(conflicts) > 0 THEN Some(conflicts) ELSE None ]

Return(r) ==
  /\ r \in runs
  /\ pc[r] = "return"
  /\ pc' = [pc EXCEPT ![r] = "complete"]
  /\ call' = None
  /\ output' = [output EXCEPT ![r] =
       Some(WorkflowResult(Val(memo[r][2]), Val(memo[r][3]), Val(memo[r][4])))]
  /\ UNCHANGED << faulty, probe, stream, auth, runs, params, memo, attempts, restarts, error, token, tokens,
                  IMAGES, SESSION_KV, events, user_tokens, remoteEvents,
                  issued, now >>

\* time passes
Tick ==
  /\ now < MaxTime
  /\ now' = now + 1
  /\ call' = None
  /\ UNCHANGED << faulty, probe, stream, auth, runs, params, pc, memo, attempts, restarts, error, output,
                  token, tokens, IMAGES, SESSION_KV, events, user_tokens,
                  remoteEvents, issued >>

Next ==
  \/ \E r \in RunIds : ExtractGetImage(r)
  \/ \E r \in RunIds : ExtractVision(r)
  \/ \E r \in RunIds : ValidateEvent(r)
  \/ \E r \in RunIds : CheckConflicts(r)
  \/ \E r \in RunIds : CreateGetToken(r)
  \/ \E r \in RunIds : RefreshFetch(r)
  \/ \E r \in RunIds : RefreshUpdate(r)
  \/ \E r \in RunIds : CreateEvent(r)
  \/ \E r \in RunIds : SaveInsert(r)
  \/ \E r \in RunIds : SaveDeleteImage(r)
  \/ \E r \in RunIds : SaveDeleteCache(r)
  \/ \E r \in RunIds : Return(r)
  \/ \E r \in RunIds : Resume(r)
  \/ Tick

Spec == Init /\ [][Next]_vars

(***************************************************************************)
(* Two instances side by side (two uploads, of one user or of two), their  *)
(* awaits interleaved in every order, on a platform whose calls succeed.   *)
(***************************************************************************)
ConcInit ==
  InitOf(RunIds) /\ faulty = FALSE /\ probe = None /\ stream = NoStream
    /\ auth = NoAuth

ConcNext ==
  \/ \E r \in RunIds : ExtractGetImage(r)
  \/ \E r \in RunIds : ExtractVision(r)
  \/ \E r \in RunIds : ValidateEvent(r)
  \/ \E r \in RunIds : CheckConflicts(r)
  \/ \E r \in RunIds : CreateGetToken(r)
  \/ \E r \in RunIds : RefreshFetch(r)
  \/ \E r \in RunIds : RefreshUpdate(r)
  \/ \E r \in RunIds : CreateEvent(r)
  \/ \E r \in RunIds : SaveInsert(r)
  \/ \E r \in RunIds : SaveDeleteImage(r)
  \/ \E r \in RunIds : SaveDeleteCache(r)
  \/ \E r \in RunIds : Return(r)
  \/ Tick

ConcSpec == ConcInit /\ [][ConcNext]_vars

(***************************************************************************)
(* A service function called on its own: probe holds the arguments of the  *)
(* call and, once the function has returned, its result.                   *)
(***************************************************************************)
\* no instance exists; bucket, cache and token table are empty
Quiet ==
  /\ runs = {}
  /\ params = [ r \in RunIds |->
                 [ userId |-> "anonymous", timezone |-> "America/New_York" ] ]
  /\ pc = [ r \in RunIds |-> "s1_get" ]
  /\ memo = [ r \in RunIds |-> [ i \in 1..NumSteps |-> None ] ]
  /\ attempts = [ r \in RunIds |-> 0 ]
  /\ restarts = [ r \in RunIds |-> 0 ]
  /\ error = [ r \in RunIds |-> None ]
  /\ output = [ r \in RunIds |-> None ]
  /\ token = [ r \in RunIds |-> None ]
  /\ tokens = [ r \in RunIds |-> None ]
  /\ IMAGES = {}
  /\ SESSION_KV = [ k \in KvKeys |-> None ]
  /\ user_tokens = [ u \in Users |-> None ]
  /\ remoteEvents = {}
  /\ issued = 1
  /\ now = 1
  /\ call = None
  /\ faulty = FALSE
  /\ stream = NoStream
  /\ auth = NoAuth

PST == getTimezoneOffset("America/Los_Angeles")

\* a row save-and-cleanup has inserted for u1: today, from sh:sm to eh:em at
\* the offset of the timezone the upload named
Row(n, sh, sm, eh, em, off) ==
  [ id                   |-> n,
    user_id              |-> "u1",
    title                |-> "Meeting",
    start_datetime       |-> DateTime(TodayDate, sh, sm, 0, off),
    end_datetime         |-> DateTime(TodayDate, eh, em, 0, off),
    is_all_day           |-> 0,
    location             |-> None,
    description          |-> << "---", "Created by EventifyIt on Cloudflare" >>,
    google_event_id      |-> n,
    google_calendar_link |-> << "htmlLink", n >>,
    image_key            |-> << "images", n >> ]

\* inside 10:00-11:00, touching it at either end, and one uploaded from the
\* Pacific coast
SpecialRows ==
  { Row(1, 10, 30, 10, 45, EST),
    Row(2,  9,  0, 10,  0, EST),
    Row(3, 11,  0, 12,  0, EST),
    Row(4, 10,  0, 11,  0, PST) }

\* n rows of one hour, a minute apart
Filler(n) == { Row(4 + k, 10, k, 10, 50, EST) : k \in 1..n }

\* candidate windows: 10:00-11:00 Eastern, 10:00-11:00 Pacific, all of today
Windows ==
  { [ start |-> DateTime(TodayDate, 10, 0, 0, EST),
      end   |-> DateTime(TodayDate, 11, 0, 0, EST) ],
    [ start |-> DateTime(TodayDate, 10, 0, 0, PST),
      end   |-> DateTime(TodayDate, 11, 0, 0, PST) ],
    [ start |-> DateTime(TodayDate, 0, 0, 0, EST),
      end   |-> DateTime(TodayDate, 23, 59, 59, EST) ] }

\* rows of uploads made without a session, inside 10:00-11:00
AnonymousRows ==
  { [Row(21, 10, 15, 10, 40, EST) EXCEPT !.user_id = "anonymous"],
    [Row(22, 10, 20, 10, 30, EST) EXCEPT !.user_id = "anonymous"] }

QueryInit ==
  /\ Quiet
  /\ \E S \in SUBSET SpecialRows, n \in 0..MaxFill, A \in SUBSET AnonymousRows :
       events = S \cup Filler(n) \cup A
  /\ \E u \in Users, w \in Windows :
       probe = Some([ fn            |-> "checkCalendarConflicts",
                      userId        |-> u,
                      startDateTime |-> w.start,
                      endDateTime   |-> w.end,
                      out           |-> None ])

\* checkCalendarConflicts(db, userId, startDateTime, endDateTime) returns
Query ==
  /\ probe # None
  /\ Val(probe).fn = "checkCalendarConflicts"
  /\ Val(probe).out = None
  /\ probe' = Some([Val(probe) EXCEPT !.out =
                      Some(checkCalendarConflicts(TableRead(events),
                                                  Val(probe).userId,
                                                  Val(probe).startDateTime,
                                                  Val(probe).endDateTime))])
  /\ UNCHANGED << faulty, stream, auth, runs, params, pc, memo, attempts, restarts, error,
                  output, token, tokens, IMAGES, SESSION_KV, events,
                  user_tokens, remoteEvents, issued, now, call >>

QuerySpec == QueryInit /\ [][Query]_vars

\* date texts the vision model may hand back: ISO, M/D/YY, "March 7", and one
\* nothing parses
DateTexts ==
  { [fmt |-> "iso", y |-> 2025, m |-> 3, d |-> 5],
    [fmt |-> "iso", y |-> 2025, m |-> 3, d |-> 4],
    [fmt |-> "slash", m |-> 3, d |-> 6, y |-> 25, ylen |-> 2],
    [fmt |-> "month", m |-> 3, d |-> 7, year |-> None],
    [fmt |-> "junk"] }

\* time texts: "9:00", "23:30", "25:00", "3:00 PM", "11:30 PM", "12 am", and
\* one nothing parses
TimeTexts ==
  { [fmt |-> "24h", h |-> 9, m |-> 0],
    [fmt |-> "24h", h |-> 23, m |-> 30],
    [fmt |-> "24h", h |-> 25, m |-> 0],
    [fmt |-> "ampm", h |-> 3, m |-> Some(0), pm |-> TRUE],
    [fmt |-> "ampm", h |-> 11, m |-> Some(30), pm |-> TRUE],
    [fmt |-> "ampm", h |-> 12, m |-> None, pm |-> FALSE],
    [fmt |-> "junk"] }

Maybe(S) == {None} \cup { Some(x) : x \in S }

RawInputs ==
  [ title       : Maybe({"Gala"}),
    start_date  : Maybe(DateTexts),
    end_date    : Maybe(DateTexts),
    start_time  : Maybe(TimeTexts),
    end_time    : Maybe(TimeTexts),
    location    : {None},
    description : {None} ]

\* { title: "Study Group", start_date: "3/5/25", start_time: "2pm" }
RawScenario == [RawStudyGroup EXCEPT !.location = None]

NormInit ==
  /\ Quiet
  /\ events = {}
  /\ \E raw \in RawInputs \cup {RawScenario}, tz \in {"America/New_York", "Asia/Tokyo"} :
       probe = Some([ fn       |-> "validateAndNormalizeEvent",
                      raw      |-> raw,
                      timezone |-> tz,
                      out      |-> None,
                      google   |-> None ])

\* validateAndNormalizeEvent(raw, timezone) returns or throws
Normalize ==
  /\ probe # None
  /\ Val(probe).fn = "validateAndNormalizeEvent"
  /\ Val(probe).out = None
  /\ probe' = Some([Val(probe) EXCEPT !.out =
                      Some(validateAndNormalizeEvent(Val(probe).raw,
                                                     Val(probe).timezone))])
  /\ UNCHANGED << faulty, stream, auth, runs, params, pc, memo, attempts, restarts, error,
                  output, token, tokens, IMAGES, SESSION_KV, events,
                  user_tokens, remoteEvents, issued, now, call >>

\* toGoogleCalendarEvent(validatedEvent), as createGoogleCalendarEvent
\* applies it to the event the normalization returned
Convert ==
  /\ probe # None
  /\ Val(probe).fn = "validateAndNormalizeEvent"
  /\ Val(probe).out # None
  /\ Val(Val(probe).out).ok
  /\ Val(probe).google = None
  /\ probe' = Some([Val(probe) EXCEPT !.google =
                      Some(toGoogleCalendarEvent(Val(Val(probe).out).event))])
  /\ UNCHANGED << faulty, stream, auth, runs, params, pc, memo, attempts, restarts, error,
                  output, token, tokens, IMAGES, SESSION_KV, events,
                  user_tokens, remoteEvents, issued, now, call >>

NormSpec == NormInit /\ [][Normalize \/ Convert]_vars


(***************************************************************************)
(* The progress stream of POST /api/process-image                          *)
(*                                                                         *)
(* handleProcessImage creates the instance and starts                      *)
(* streamWorkflowProgress(instance, writer, ...) without awaiting it; the  *)
(* function runs beside the instance, one action per await.  The client    *)
(* stays connected, so writer.write and writer.close resolve and the catch *)
(* inside sendEvent is not entered.  An event is the record the code       *)
(* passes to sendEvent.                                                    *)
(***************************************************************************)
\* the instance whose progress is streamed
Streamed == 1

\* the run of instance r has not begun: the platform may still hold it queued
NotBegun(r) ==
  /\ pc[r] = "s1_get"
  /\ attempts[r] = 0
  /\ restarts[r] = 0
  /\ memo[r][1] = None

\* what instance.status() can resolve to
instanceStatus(r) ==
  IF pc[r] = "complete"
    THEN { [ status |-> "complete", output |-> output[r], error |-> None ] }
  ELSE IF pc[r] = "errored"
    THEN { [ status |-> "errored", output |-> None, error |-> error[r] ] }
  ELSE { [ status |-> s, output |-> None, error |-> None ] :
           s \in {"running"} \cup (IF NotBegun(r) THEN {"queued"} ELSE {}) }

\* typeof status.error === 'string' ? status.error
\*   : JSON.stringify(status.error) || 'Workflow failed'
\* (either representation of the platform's error names the Error's message)
errorMessage(status) ==
  IF status.error # None THEN Val(status.error).message ELSE "Workflow failed"

ReportBoth(status) ==
  << [ step |-> "complete", result |-> status.output ],
     [ step |-> "error", error |-> errorMessage(status) ] >>

\* the events sent once the polling loop has ended
Report(status) ==
  IF status.status = "complete"
    THEN << [ step |-> "complete", result |-> status.output ] >>
    ELSE << [ step |-> "error", error |-> errorMessage(status) ] >>

\* the 'processing' events written so far
Polls == Cardinality({ i \in 1..Len(stream.events) :
                         stream.events[i].step = "processing" })

StreamFrame ==
  UNCHANGED << faulty, probe, auth, runs, params, pc, memo, attempts, restarts,
               error, output, token, tokens, IMAGES, SESSION_KV, events,
               user_tokens, remoteEvents, issued, now, call >>

\* await sendEvent({ step: 'started', workflowId: instance.id })
StreamStarted ==
  /\ stream.pc = "started"
  /\ stream' = [stream EXCEPT
       !.events = Append(@, [ step |-> "started", workflowId |-> Streamed ]),
       !.pc = "status"]
  /\ StreamFrame

\* status = await instance.status() resolves, before and inside the loop
StreamStatus ==
  /\ stream.pc = "status"
  /\ \E st \in instanceStatus(Streamed) :
       stream' = [stream EXCEPT
         !.status = Some(st),
         !.pc = IF st.status = "running" THEN "processing" ELSE "report"]
  /\ StreamFrame

\* await instance.status() rejects: the catch block is entered
StreamStatusRejects ==
  /\ stream.pc = "status"
  /\ stream' = [stream EXCEPT !.pc = "caught"]
  /\ StreamFrame

\* await sendEvent({ step: 'processing', ... }) in the loop body
StreamProcessing ==
  /\ stream.pc = "processing"
  /\ Polls < MaxPolls
  /\ stream' = [stream EXCEPT
       !.events = Append(@, [ step   |-> "processing",
                              status |-> Val(stream.status).status ]),
       !.pc = "sleep"]
  /\ StreamFrame

\* await new Promise(resolve => setTimeout(resolve, 1000))
StreamSleep ==
  /\ stream.pc = "sleep"
  /\ stream' = [stream EXCEPT !.pc = "status"]
  /\ StreamFrame

\* the if/else after the loop
StreamReport ==
  /\ stream.pc = "report"
  /\ stream' = [stream EXCEPT
       !.events = @ \o Report(Val(stream.status)),
       !.pc = "close"]
  /\ StreamFrame

\* catch (error): await sendEvent({ step: 'error', error: errorMessage })
StreamCaught ==
  /\ stream.pc = "caught"
  /\ stream' = [stream EXCEPT
       !.events = Append(@, [ step |-> "error", error |-> "status failed" ]),
       !.pc = "close"]
  /\ StreamFrame

\* finally: await writer.close()
StreamClose ==
  /\ stream.pc = "close"
  /\ stream' = [stream EXCEPT !.closed = TRUE, !.pc = "done"]
  /\ StreamFrame

StreamInit ==
  /\ InitOf({Streamed})
  /\ faulty = FALSE
  /\ probe = None
  /\ stream = [NoStream EXCEPT !.pc = "started"]
  /\ auth = NoAuth

StreamNext ==
  \/ ConcNext
  \/ StreamStarted
  \/ StreamStatus
  \/ StreamStatusRejects
  \/ StreamProcessing
  \/ StreamSleep
  \/ StreamReport
  \/ StreamCaught
  \/ StreamClose

StreamSpec == StreamInit /\ [][StreamNext]_vars


(***************************************************************************)
(* parseTime and parseDate on the text itself                              *)
(*                                                                         *)
(* A text is the sequence of its characters.  The two functions are        *)
(* computed as the code computes them: trim, lower-case, the regular       *)
(* expressions in the order they are tried, padStart.  A result is None    *)
(* for null and Some(text) for a returned string.                          *)
(***************************************************************************)
DigitChars == << "0", "1", "2", "3", "4", "5", "6", "7", "8", "9" >>
Digit == { DigitChars[i] : i \in 1..10 }

DigitVal(c) == (CHOOSE i \in 1..10 : DigitChars[i] = c) - 1

\* \d{lo,hi}
IsDigits(s, lo, hi) ==
  /\ Len(s) >= lo /\ Len(s) <= hi
  /\ \A i \in 1..Len(s) : s[i] \in Digit

\* parseInt(s, 10) of a text of digits
RECURSIVE parseInt(_)
parseInt(s) ==
  IF s = << >> THEN 0
  ELSE 10 * parseInt(SubSeq(s, 1, Len(s) - 1)) + DigitVal(s[Len(s)])

\* String(n) of a natural number
RECURSIVE String(_)
String(n) ==
  IF n < 10 THEN << DigitChars[n + 1] >>
  ELSE String(n \div 10) \o << DigitChars[(n % 10) + 1] >>

\* s.padStart(2, '0')
padStart2(s) == IF Len(s) < 2 THEN << "0" >> \o s ELSE s

\* s.trim()
RECURSIVE trim(_)
trim(s) ==
  IF s = << >> THEN s
  ELSE IF Head(s) = " " THEN trim(Tail(s))
  ELSE IF s[Len(s)] = " " THEN trim(SubSeq(s, 1, Len(s) - 1))
  ELSE s

Upper == << "A", "P", "M", "R", "C", "H" >>
Lower == << "a", "p", "m", "r", "c", "h" >>

\* s.toLowerCase(), on the letters the texts under test contain
toLowerCase(s) ==
  [ i \in 1..Len(s) |->
      IF \E k \in 1..Len(Upper) : Upper[k] = s[i]
        THEN Lower[CHOOSE k \in 1..Len(Upper) : Upper[k] = s[i]]
        ELSE s[i] ]

\* the characters of s from position i on
From(s, i) == SubSeq(s, i, Len(s))

\* the positions of character c in s
Positions(s, c) == { i \in 1..Len(s) : s[i] = c }

\* /^\d{1,2}:\d{2}$/
Is24h(s) ==
  \E i \in Positions(s, ":") :
    IsDigits(SubSeq(s, 1, i - 1), 1, 2) /\ IsDigits(From(s, i + 1), 2, 2)

\* the match of /^(\d{1,2})(?::(\d{2}))?\s*(am|pm)$/i: [hours, mins, ampm]
\* with mins None when the group did not take part, or None for no match
ampmMatch(s) ==
  IF Len(s) < 3 \/ From(s, Len(s) - 1) \notin { << "a", "m" >>, << "p", "m" >> }
    THEN None
  ELSE LET ampm == From(s, Len(s) - 1)
           rest == trim(SubSeq(s, 1, Len(s) - 2))
       IN  IF IsDigits(rest, 1, 2)
             THEN Some([hours |-> rest, mins |-> None, ampm |-> ampm])
           ELSE IF Is24h(rest)
             THEN LET i == CHOOSE i \in Positions(rest, ":") : TRUE
                  IN  Some([ hours |-> SubSeq(rest, 1, i - 1),
                             mins  |-> Some(From(rest, i + 1)),
                             ampm  |-> ampm ])
           ELSE None

hour24Additive(hours, ampm) ==
  IF ampm = << "p", "m" >> THEN parseInt(hours) + 12 ELSE parseInt(hours)

\* the noon/midnight rule of parseTime
hour24(hours, ampm) ==
  IF ampm = << "p", "m" >> /\ parseInt(hours) # 12 THEN parseInt(hours) + 12
  ELSE IF ampm = << "a", "m" >> /\ parseInt(hours) = 12 THEN 0
  ELSE parseInt(hours)

parseTimeText(timeStr) ==
  IF timeStr = None \/ timeStr = Some(<< >>) THEN None
  ELSE LET cleaned == toLowerCase(trim(Val(timeStr))) IN
    IF Is24h(cleaned)
      THEN LET i == CHOOSE i \in Positions(cleaned, ":") : TRUE
           IN  Some(padStart2(SubSeq(cleaned, 1, i - 1)) \o << ":" >>
                      \o From(cleaned, i + 1))
    ELSE IF ampmMatch(cleaned) # None
      THEN LET m == Val(ampmMatch(cleaned))
           IN  Some(padStart2(String(hour24(m.hours, m.ampm))) \o << ":" >>
                      \o (IF m.mins = None THEN << "0", "0" >> ELSE Val(m.mins)))
    ELSE None


\* /^\d{4}-\d{2}-\d{2}$/
IsIso(s) ==
  /\ Len(s) = 10
  /\ s[5] = "-" /\ s[8] = "-"
  /\ IsDigits(SubSeq(s, 1, 4), 4, 4)
  /\ IsDigits(SubSeq(s, 6, 7), 2, 2)
  /\ IsDigits(SubSeq(s, 9, 10), 2, 2)

\* the match of /^(\d{1,2})\/(\d{1,2})\/(\d{2,4})$/: [month, day, year], or
\* None
slashMatch(s) ==
  LET at == Positions(s, "/") IN
    IF Cardinality(at) # 2 THEN None
    ELSE LET i == CHOOSE i \in at : \A j \in at : i <= j
             j == CHOOSE j \in at : j # i
             month == SubSeq(s, 1, i - 1)
             day   == SubSeq(s, i + 1, j - 1)
             year  == From(s, j + 1)
         IN  IF IsDigits(month, 1, 2) /\ IsDigits(day, 1, 2) /\ IsDigits(year, 2, 4)
               THEN Some([month |-> month, day |-> day, year |-> year])
               ELSE None

fullYearTextAsWritten(year) == year

\* const fullYear = year.length === 2 ? `20${year}` : year
fullYearText(year) == IF Len(year) = 2 THEN << "2", "0" >> \o year ELSE year

\* const monthNames = [...]
monthNames ==
  << << "j", "a", "n", "u", "a", "r", "y" >>,
     << "f", "e", "b", "r", "u", "a", "r", "y" >>,
     << "m", "a", "r", "c", "h" >>,
     << "a", "p", "r", "i", "l" >>,
     << "m", "a", "y" >>,
     << "j", "u", "n", "e" >>,
     << "j", "u", "l", "y" >>,
     << "a", "u", "g", "u", "s", "t" >>,
     << "s", "e", "p", "t", "e", "m", "b", "e", "r" >>,
     << "o", "c", "t", "o", "b", "e", "r" >>,
     << "n", "o", "v", "e", "m", "b", "e", "r" >>,
     << "d", "e", "c", "e", "m", "b", "e", "r" >> >>

\* what (\d{1,2})(?:,?\s*(\d{4}))?$ matches of `rest` when the day takes its
\* first n characters
dayAndYear(rest, n) ==
  LET day  == SubSeq(rest, 1, n)
      tail == From(rest, n + 1)
      year == trim(IF tail # << >> /\ Head(tail) = "," THEN Tail(tail)
                   ELSE tail)
  IN  IF Len(rest) < n \/ ~IsDigits(day, 1, 2) THEN None
      ELSE IF tail = << >> THEN Some([day |-> day, year |-> None])
      ELSE IF IsDigits(year, 4, 4) THEN Some([day |-> day, year |-> Some(year)])
      ELSE None

\* the match of /^(january|...|december)\s+(\d{1,2})(?:,?\s*(\d{4}))?$/i on
\* the lower-cased text: [monthIndex, day, year] with year None when the
\* group did not take part, or None
monthMatch(s) ==
  LET named == { k \in 1..Len(monthNames) :
                   /\ Len(s) > Len(monthNames[k]) + 1
                   /\ SubSeq(s, 1, Len(monthNames[k])) = monthNames[k]
                   /\ s[Len(monthNames[k]) + 1] = " " }
  IN  IF named = {} THEN None
      ELSE LET k    == CHOOSE k \in named : TRUE
               rest == trim(From(s, Len(monthNames[k]) + 1))
               m    == IF dayAndYear(rest, 2) # None THEN dayAndYear(rest, 2)
                       ELSE dayAndYear(rest, 1)
           IN  IF m = None THEN None
               ELSE Some([ monthIndex |-> k, day |-> Val(m).day,
                           year |-> Val(m).year ])

\* new Date(cleaned): Invalid Date for a text without a digit; what the
\* engine's date parser makes of any other text stays unnamed
DateFallback(cleaned) ==
  IF \A i \in 1..Len(cleaned) : cleaned[i] \notin Digit
    THEN None
    ELSE Some(<< "Date" >> \o cleaned)

parseDateText(dateStr, defaultYear) ==
  IF dateStr = None \/ dateStr = Some(<< >>) THEN None
  ELSE LET cleaned == trim(Val(dateStr)) IN
    IF IsIso(cleaned) THEN Some(cleaned)
    ELSE IF slashMatch(cleaned) # None
      THEN LET m == Val(slashMatch(cleaned))
           IN  Some(fullYearText(m.year) \o << "-" >> \o padStart2(m.month)
                      \o << "-" >> \o padStart2(m.day))
    ELSE IF monthMatch(toLowerCase(cleaned)) # None
      THEN LET m == Val(monthMatch(toLowerCase(cleaned)))
               fullYearOrDefault ==
                 IF m.year = None THEN String(defaultYear) ELSE Val(m.year)
           IN  Some(fullYearOrDefault \o << "-" >>
                      \o padStart2(String(m.monthIndex))
                      \o << "-" >> \o padStart2(m.day))
    ELSE DateFallback(cleaned)


\* the pieces time texts are assembled from: an hour with its value, minutes
\* (":5" is no \d{2}), blanks, and an am/pm marker with what it stands for
HourTexts ==
  { [text |-> << "0" >>, n |-> 0],       [text |-> << "3" >>, n |-> 3],
    [text |-> << "0", "9" >>, n |-> 9],  [text |-> << "1", "1" >>, n |-> 11],
    [text |-> << "1", "2" >>, n |-> 12], [text |-> << "1", "3" >>, n |-> 13],
    [text |-> << "1", "2", "3" >>, n |-> 123] }

MinuteTexts == { << >>, << ":", "0", "0" >>, << ":", "3", "0" >>, << ":", "5" >> }

Blanks == { << >>, << " " >> }

Meridiems ==
  { [text |-> << >>, is |-> "none"],
    [text |-> << "a", "m" >>, is |-> "am"], [text |-> << "A", "M" >>, is |-> "am"],
    [text |-> << "p", "m" >>, is |-> "pm"], [text |-> << "P", "m" >>, is |-> "pm"],
    [text |-> << "h", "r" >>, is |-> "other"] }

TimeProbes ==
  { [ fn       |-> "parseTime",
      hours    |-> h,
      mins     |-> m,
      meridiem |-> a.is,
      timeStr  |-> Some(lead \o h.text \o m \o gap \o a.text),
      out      |-> None ] :
      h \in HourTexts, m \in MinuteTexts, a \in Meridiems,
      lead \in Blanks, gap \in Blanks }

\* date texts: YYYY-MM-DD, M/D/Y with a year of one to four digits, month
\* names, an unpadded 2025-3-5, and texts without a digit
IsoProbes ==
  { [ fn |-> "parseDate", kind |-> "iso", year |-> y, month |-> m, day |-> d,
      dateStr |-> Some(lead \o y \o << "-" >> \o m \o << "-" >> \o d \o lead),
      defaultYear |-> 2025, out |-> None ] :
      y \in { << "2", "0", "2", "5" >>, << "1", "9", "9", "9" >> },
      m \in { << "0", "3" >>, << "1", "2" >> },
      d \in { << "0", "5" >>, << "3", "1" >> },
      lead \in Blanks }

SlashProbes ==
  { [ fn |-> "parseDate", kind |-> "slash", year |-> y, month |-> m, day |-> d,
      dateStr |-> Some(lead \o m \o << "/" >> \o d \o << "/" >> \o y),
      defaultYear |-> 2025, out |-> None ] :
      y \in { << "2", "5" >>, << "9", "9" >>, << "0", "0" >>,
              << "2", "0", "2", "5" >>, << "2", "0", "2" >>, << "5" >> },
      m \in { << "3" >>, << "0", "3" >>, << "1", "2" >> },
      d \in { << "5" >>, << "3", "1" >> },
      lead \in Blanks }

OtherDateProbes ==
  { [ fn |-> "parseDate", kind |-> "other", year |-> << >>, month |-> << >>,
      day |-> << >>, dateStr |-> t, defaultYear |-> 2025, out |-> None ] :
      t \in { None, Some(<< >>), Some(<< "t", "b", "d" >>),
              Some(<< "M", "a", "r", "c", "h", " ", "7" >>),
              Some(<< "m", "a", "r", "c", "h", " ", "1", "2", ",", " ",
                      "2", "0", "2", "6" >>),
              Some(<< "2", "0", "2", "5", "-", "3", "-", "5" >>) } }

ParseInit ==
  /\ Quiet
  /\ events = {}
  /\ \E p \in TimeProbes \cup IsoProbes \cup SlashProbes \cup OtherDateProbes :
       probe = Some(p)

ParseFrame ==
  UNCHANGED << faulty, stream, auth, runs, params, pc, memo, attempts, restarts,
               error, output, token, tokens, IMAGES, SESSION_KV, events,
               user_tokens, remoteEvents, issued, now, call >>

\* parseTime(timeStr) returns
ParseTime ==
  /\ probe # None
  /\ Val(probe).fn = "parseTime"
  /\ Val(probe).out = None
  /\ probe' = Some([Val(probe) EXCEPT
                      !.out = Some(parseTimeText(Val(probe).timeStr))])
  /\ ParseFrame

\* parseDate(dateStr, defaultYear) returns
ParseDate ==
  /\ probe # None
  /\ Val(probe).fn = "parseDate"
  /\ Val(probe).out = None
  /\ probe' = Some([Val(probe) EXCEPT
                      !.out = Some(parseDateText(Val(probe).dateStr,
                                                 Val(probe).defaultYear))])
  /\ ParseFrame

ParseSpec == ParseInit /\ [][ParseTime \/ ParseDate]_vars


(***************************************************************************)
(* The OAuth flow of index.ts.  handleGoogleAuth stores a fresh state      *)
(* under oauth:state:<state>; handleGoogleCallback verifies and deletes    *)
(* it, exchanges the code, reads the user, stores the credential and       *)
(* creates a session.  One action per await; the callback requests are     *)
(* served concurrently, as the Workers runtime serves requests.            *)
(***************************************************************************)
\* the state values crypto.randomUUID() can return to handleGoogleAuth
MaxStates == 2

States == 1..MaxStates

\* handleGoogleAuth: a fresh state is stored as 'pending' and sent to Google
GoogleAuth ==
  /\ auth.minted < MaxStates
  /\ auth' = [auth EXCEPT !.minted = @ + 1, !.states = @ \cup {auth.minted + 1}]
  /\ call' = None
  /\ UNCHANGED << faulty, probe, stream, runs, params, pc, memo, attempts,
                  restarts, error, output, token, tokens, IMAGES, SESSION_KV,
                  events, user_tokens, remoteEvents, issued, now >>

\* { expirationTtl: 600 }: the key of a state nobody used goes away
StateExpires ==
  /\ \E s \in auth.states : auth' = [auth EXCEPT !.states = @ \ {s}]
  /\ call' = None
  /\ UNCHANGED << faulty, probe, stream, runs, params, pc, memo, attempts,
                  restarts, error, output, token, tokens, IMAGES, SESSION_KV,
                  events, user_tokens, remoteEvents, issued, now >>

AuthFrame ==
  /\ call' = None
  /\ UNCHANGED << faulty, probe, stream, runs, params, pc, memo, attempts,
                  restarts, error, output, token, tokens, IMAGES, SESSION_KV,
                  events, remoteEvents, now >>

\* handleGoogleCallback up to its first await: the query parameters are read,
\* a request without a state is answered 400
CallbackArrives(c) ==
  /\ auth.cb[c].pc = "idle"
  /\ \E state \in Maybe(States) :
       auth' = [auth EXCEPT ![ "cb" ][c] =
                  [ @ EXCEPT !.state = state,
                             !.pc = IF state = None THEN "missing" ELSE "get" ]]
  /\ UNCHANGED << user_tokens, issued >>
  /\ AuthFrame

\* const storedState = await env.SESSION_KV.get(...); if (!storedState) 400
CallbackGet(c) ==
  /\ auth.cb[c].pc = "get"
  /\ auth' = [auth EXCEPT ![ "cb" ][c].pc =
                IF Val(auth.cb[c].state) \in auth.states THEN "delete"
                ELSE "invalid"]
  /\ UNCHANGED << user_tokens, issued >>
  /\ AuthFrame

\* await env.SESSION_KV.delete(`oauth:state:${state}`)
CallbackDelete(c) ==
  /\ auth.cb[c].pc = "delete"
  /\ auth' = [auth EXCEPT !.states = @ \ {Val(auth.cb[c].state)},
                          ![ "cb" ][c].pc = "exchange"]
  /\ UNCHANGED << user_tokens, issued >>
  /\ AuthFrame

\* the POST to the token endpoint with grant_type authorization_code
CallbackExchange(c) ==
  /\ auth.cb[c].pc = "exchange"
  /\ \/ /\ \E expires_in \in 1..MaxTime, offline \in BOOLEAN :
             auth' = [auth EXCEPT ![ "cb" ][c] =
               [ @ EXCEPT !.pc = "userinfo",
                          !.tokens =
                            Some([ access_token  |-> issued + 1,
                                   refresh_token |-> IF offline THEN Some(issued + 1)
                                                     ELSE None,
                                   expires_in    |-> expires_in ]) ]]
        /\ issued' = issued + 1
     \/ /\ auth' = [auth EXCEPT ![ "cb" ][c].pc = "failed"]
        /\ issued' = issued
  /\ UNCHANGED user_tokens
  /\ AuthFrame

\* the GET of oauth2/v2/userinfo with the new access token
CallbackUserInfo(c) ==
  /\ auth.cb[c].pc = "userinfo"
  /\ \/ auth' = [auth EXCEPT ![ "cb" ][c].pc = "store"]
     \/ auth' = [auth EXCEPT ![ "cb" ][c].pc = "failed"]
  /\ UNCHANGED << user_tokens, issued >>
  /\ AuthFrame

\* INSERT OR REPLACE INTO user_tokens, bound to userInfo.id
CallbackStore(c) ==
  /\ auth.cb[c].pc = "store"
  /\ LET t == Val(auth.cb[c].tokens)
     IN user_tokens' = [user_tokens EXCEPT ![ "u1" ] =
          Some([ accessToken  |-> t.access_token,
                 refreshToken |-> IF t.refresh_token # None
                                  THEN Val(t.refresh_token) ELSE 0,
                 expiresAt    |-> now + t.expires_in ])]
  /\ auth' = [auth EXCEPT ![ "cb" ][c].pc = "session"]
  /\ UNCHANGED issued
  /\ AuthFrame

\* SESSION_KV.put(`session:${sessionId}`, userId) and the 302 with the cookie
CallbackSession(c) ==
  /\ auth.cb[c].pc = "session"
  /\ auth' = [auth EXCEPT !.sessions = @ \cup {[ by |-> c, userId |-> "u1" ]},
                          ![ "cb" ][c].pc = "done"]
  /\ UNCHANGED << user_tokens, issued >>
  /\ AuthFrame

AuthInit ==
  /\ Quiet
  /\ events = {}
  /\ probe = None

AuthNext ==
  \/ GoogleAuth
  \/ StateExpires
  \/ \E c \in Callbacks :
       \/ CallbackArrives(c)
       \/ CallbackGet(c)
       \/ CallbackDelete(c)
       \/ CallbackExchange(c)
       \/ CallbackUserInfo(c)
       \/ CallbackStore(c)
       \/ CallbackSession(c)

AuthSpec == AuthInit /\ [][AuthNext]_vars


(***************************************************************************)
(* Properties                                                              *)
(***************************************************************************)
\* the rows of table events the instance r has inserted
RowsOf(r) == { e \in events : e.image_key = imageKeyOf(r) }

\* the remote events the create calls of instance r have left
RemoteOf(r) == { ev \in remoteEvents : ev.run = r }

\* the last action was an await of instance r on one of ops
Awaiting(c, r, ops) == c # None /\ Val(c).run = r /\ Val(c).op \in ops

\* ... and the await threw
Failing(c, r, ops) == Awaiting(c, r, ops) /\ Val(c).err # None

\* the awaits of each step's callback
OpsOf(i) ==
  CASE i = 1 -> {"IMAGES.get", "AI.run"}
    [] i = 2 -> {"validate", "SESSION_KV.put"}
    [] i = 3 -> {"DB.select events"}
    [] i = 4 -> {"DB.select user_tokens", "fetch token",
                 "DB.update user_tokens", "fetch calendar"}
    [] OTHER -> {"DB.insert events", "IMAGES.delete", "SESSION_KV.delete"}

Done(r, i) == memo[r][i] # None

\* C1: within one run the five steps execute strictly in the order
\* extract-event-data, validate-event, check-conflicts,
\* create-calendar-event, save-and-cleanup: the completed steps are always a
\* prefix of that order, the step in progress is the first one not completed
\* (so no step begins before the preceding one has completed; a run has one
\* position, so at most one step is in progress), and run() returns only
\* after all five.
C1_StepsInOrder ==
  \A r \in RunIds :
    /\ \A i \in 1..NumSteps : Done(r, i) => \A j \in 1..(i - 1) : Done(r, j)
    /\ StepOf(pc[r]) # 0 =>
         /\ ~Done(r, StepOf(pc[r]))
         /\ \A j \in 1..(StepOf(pc[r]) - 1) : Done(r, j)
    /\ pc[r] \in {"return", "complete"} => \A i \in 1..NumSteps : Done(r, i)
    /\ call # None /\ Val(call).run = r /\ Val(call).err = None =>
         \A i \in 1..NumSteps :
           Val(call).op \in OpsOf(i) => \A j \in 1..(i - 1) : Done(r, j)

\* C1 witness: a run that was restarted is inside save-and-cleanup, the four
\* steps before it completed
C1_Witness ==
  \E r \in RunIds :
    pc[r] = "s5_kvdel" /\ restarts[r] > 0 /\ \A i \in 1..4 : Done(r, i)

\* C2: a completed step is never executed again when the run is resumed: no
\* await of a step's callback happens once that step's result is recorded; in
\* particular the vision service is not invoked once extract-event-data has
\* completed and the calendar create call is not made once
\* create-calendar-event has completed.
C2_NoReexecution ==
  [][ \A r \in RunIds : \A i \in 1..NumSteps :
        Done(r, i) => ~Awaiting(call', r, OpsOf(i)) ]_vars

\* C2 witness: a run restarted after create-calendar-event completed is back
\* at the first await of save-and-cleanup
C2_Witness ==
  \E r \in RunIds :
    /\ restarts[r] > 0 /\ call = None /\ pc[r] = "s5_insert"
    /\ RowsOf(r) # {} /\ Done(r, 4)


\* C3: for every run at most one StoredEventRecord is ever inserted, and
\* exactly one exists when the run has completed successfully, whatever
\* failures and engine retries save-and-cleanup goes through.
C3_AtMostOneRecord ==
  \A r \in RunIds :
    /\ Cardinality(RowsOf(r)) <= 1
    /\ pc[r] = "complete" => Cardinality(RowsOf(r)) = 1

\* C4: save-and-cleanup executes only after create-calendar-event has produced
\* a calendar id: every StoredEventRecord a run has written carries the id and
\* the link that the recorded result of the run's create-calendar-event step
\* holds, which are those of a remote event a create call of the same run
\* left; a run whose step 4 has not succeeded has written no record.
C4_RecordCarriesCreatedId ==
  \A r \in RunIds : \A e \in RowsOf(r) :
    /\ Done(r, 4)
    /\ e.google_event_id = Val(memo[r][4]).id
    /\ e.google_calendar_link = Val(memo[r][4]).htmlLink
    /\ \E ev \in RemoteOf(r) :
         /\ ev.id = e.google_event_id
         /\ e.google_calendar_link = << "htmlLink", ev.id >>

\* C4 witness: a run that lost a create response and created a second remote
\* event has written its record
C4_Witness ==
  \E r \in RunIds :
    RowsOf(r) # {} /\ Cardinality(RemoteOf(r)) >= 2 /\ StoredRow \in events

\* C5: create-calendar-event is at-least-once: every create call the remote
\* service accepts, a retry after a lost response included, stores one more
\* remote event (nothing deduplicates), so a run may leave several; and a run
\* that returns success has created at least one remote event.
C5_AtLeastOnceCreate ==
  /\ [] (\A r \in RunIds : pc[r] = "complete" => RemoteOf(r) # {})
  /\ [][ \A r \in RunIds :
           ( /\ Awaiting(call', r, {"fetch calendar"})
             /\ Val(call').err \in {None, Some("fetch failed")} )
           => Cardinality(remoteEvents') = Cardinality(remoteEvents) + 1 ]_vars

\* C5 witness: a run has returned success and left two remote events
C5_Witness ==
  \E r \in RunIds : pc[r] = "complete" /\ Cardinality(RemoteOf(r)) >= 2

\* C6: a failure of the conflict query never blocks publication: no run ends
\* in error in check-conflicts.
C6_ConflictFailureNeverFatal ==
  \A r \in RunIds :
    error[r] # None => Val(error[r]).step # "check-conflicts"

\* C7: a failed image delete or cache delete inside save-and-cleanup is
\* non-fatal and not retried: after it the step is not entered again and the
\* run does not end in error.
C7_CleanupFailureNotRetried ==
  \A r \in RunIds :
    Failing(call, r, {"IMAGES.delete", "SESSION_KV.delete"})
      => pc[r] \notin {"s5_insert", "errored"}

\* C8: a terminal failure in extract-event-data, validate-event or
\* create-calendar-event aborts the run.  A throw of one of these steps
\* leaves the run either at the start of the same step (a retry) or errored,
\* never in a later step; an errored run takes no further step; a run errored
\* in step 1 or 2 has created no remote event; a run errored in step 1, 2 or
\* 4 has written no StoredEventRecord and has no success result.
C8_FailureAborts ==
  /\ [] (\A r \in RunIds : \A i \in {1, 2, 4} :
           /\ Failing(call, r, OpsOf(i)) =>
                /\ pc[r] \in {Entry(i), "errored"}
                /\ \A j \in i..NumSteps : ~Done(r, j)
           /\ (error[r] # None /\ Val(error[r]).step = StepNames[i]) =>
                /\ pc[r] = "errored"
                /\ \A j \in i..NumSteps : ~Done(r, j)
                /\ RowsOf(r) = {}
                /\ output[r] = None
                /\ (i \in {1, 2} => RemoteOf(r) = {}))
  /\ [][ \A r \in RunIds :
           pc[r] = "errored" =>
             /\ pc'[r] = "errored"
             /\ ~Awaiting(call', r, UNION { OpsOf(i) : i \in 1..NumSteps })
             /\ memo'[r] = memo[r] /\ output'[r] = output[r] ]_vars

\* C8 witness: a run has errored in create-calendar-event after a create call
\* whose response was lost
C8_Witness ==
  \E r \in RunIds :
    /\ pc[r] = "errored"
    /\ Val(error[r]).step = "create-calendar-event"
    /\ RemoteOf(r) # {}

\* C9: when the image key does not resolve, extract-event-data fails fatally
\* on its first attempt (the step is not retried: the run is errored as soon
\* as `Image not found` is thrown), and the vision service is never invoked.
C9_MissingImageFatal ==
  \A r \in RunIds :
    /\ Failing(call, r, {"IMAGES.get"}) /\ Val(call).err = Some("Image not found")
         => pc[r] = "errored"
    /\ Awaiting(call, r, {"AI.run"}) => imageKeyOf(r) \in IMAGES

\* C10: when no CredentialRecord exists for the user, create-calendar-event
\* fails with the authentication-required error: the token select of such a
\* run ends in that error (or in a storage failure), neither the token
\* endpoint nor the calendar create endpoint is ever called, the step never
\* completes and the run never returns success.
C10_MissingCredentialFatal ==
  \A r \in RunIds :
    user_tokens[params[r].userId] = None =>
      /\ Awaiting(call, r, {"DB.select user_tokens"}) =>
           Val(call).err \in {Some("No OAuth token found"), Some("D1 select failed")}
      /\ ~Awaiting(call, r, {"fetch token", "DB.update user_tokens", "fetch calendar"})
      /\ pc[r] \notin {"s4_refresh", "s4_update", "s4_create"}
      /\ ~Done(r, 4)
      /\ pc[r] # "complete" /\ output[r] = None
      /\ RemoteOf(r) = {}

\* C10 witness: a run of a user without credential has errored in
\* create-calendar-event with the authentication-required error
C10_Witness ==
  \E r \in RunIds :
    /\ user_tokens[params[r].userId] = None
    /\ pc[r] = "errored"
    /\ error[r] = Some([ step    |-> "create-calendar-event",
                         message |-> "No OAuth token found" ])

\* C11: an authentication rejection (401) of the calendar create call makes
\* create-calendar-event refresh the credential and retry the create instead
\* of aborting, so a run ends with the rejection as its error only after a
\* refresh has been performed: the identity provider has issued a token
\* beyond the one the OAuth callback stored.
C11_RejectionRefreshes ==
  \A r \in RunIds :
    error[r] = Some([ step    |-> "create-calendar-event",
                      message |-> "OAUTH_EXPIRED" ]) => issued > 1

\* C12: when the credential create-calendar-event loads has passed its expiry
\* instant, the credential is refreshed before the create call, and the
\* create call is made with the refreshed access token, never the expired
\* one: the callback goes from the load straight to the create call only
\* with an unexpired credential, it reaches the create call otherwise only
\* through the refresh (token endpoint, then UPDATE), it holds after the
\* refresh the access token the endpoint returned, which is not the one it
\* loaded, and every create call sends the access token the callback holds.
C12_ExpiredRefreshedBeforeCreate ==
  /\ [] (\A r \in RunIds :
           pc[r] \in {"s4_refresh", "s4_update"} =>
             token[r] # None /\ Val(token[r]).expiresAt < now)
  /\ [][ \A r \in RunIds :
           /\ (pc[r] # "s4_create" /\ pc'[r] = "s4_create") =>
                pc[r] \in {"s4_token", "s4_update"}
           /\ (pc[r] = "s4_token" /\ pc'[r] = "s4_create") =>
                /\ token'[r] = user_tokens[params[r].userId]
                /\ ~(Val(token'[r]).expiresAt < now)
           /\ (pc[r] = "s4_token" /\ Awaiting(call', r, {"DB.select user_tokens"})
                 /\ Val(call').err = None
                 /\ Val(user_tokens[params[r].userId]).expiresAt < now) =>
                pc'[r] = "s4_refresh"
           /\ (pc[r] = "s4_update" /\ pc'[r] = "s4_create") =>
                /\ Val(token'[r]).accessToken = Val(tokens[r]).access_token
                /\ Val(token'[r]).accessToken # Val(token[r]).accessToken
           /\ Awaiting(call', r, {"fetch calendar"}) =>
                /\ pc[r] = "s4_create"
                /\ \A ev \in remoteEvents' \ remoteEvents :
                     ev.accessToken = Val(token[r]).accessToken ]_vars

\* C12 witness: the create call of a run whose loaded credential had expired
\* was accepted with an access token the refresh returned
C12_Witness ==
  \E r \in RunIds :
    /\ Awaiting(call, r, {"fetch calendar"})
    /\ \E ev \in RemoteOf(r) : ev.accessToken > 1

\* C13 as stated: after a successful refresh (the token endpoint answered and
\* the UPDATE of user_tokens went through) the stored credential of the user
\* holds the access token and the expiry the endpoint's response gave, its
\* refresh token is the one the response carried if it carried one and is
\* otherwise the refresh token stored before the refresh wrote, and no other
\* user's credential has changed.
C13_RefreshKeepsStoredToken ==
  [][ \A r \in RunIds :
        (Awaiting(call', r, {"DB.update user_tokens"}) /\ Val(call').err = None) =>
          LET u      == params[r].userId
              resp   == Val(tokens[r])
              before == Val(user_tokens[u])
              after  == Val(user_tokens'[u])
          IN /\ after.accessToken = resp.access_token
             /\ after.accessToken # before.accessToken
             /\ after.expiresAt = resp.expiresAt
             /\ after.refreshToken =
                  IF resp.refresh_token # None THEN Val(resp.refresh_token)
                  ELSE before.refreshToken
             /\ \A v \in Users \ {u} : user_tokens'[v] = user_tokens[v] ]_vars

\* C13, amended: after a successful refresh the stored credential of the
\* user holds the access token and the expiry the endpoint's response gave,
\* its refresh token is the one the response carried if it carried one and
\* is otherwise the refresh token of the credential the refresh was called
\* with (the one create-calendar-event had loaded, which is the stored one
\* unless another run has replaced it since), and no other user's credential
\* has changed.
C13_RefreshStoresNewCredential ==
  [][ \A r \in RunIds :
        (Awaiting(call', r, {"DB.update user_tokens"}) /\ Val(call').err = None) =>
          LET u      == params[r].userId
              resp   == Val(tokens[r])
              given  == Val(token[r])
              before == Val(user_tokens[u])
              after  == Val(user_tokens'[u])
          IN /\ after.accessToken = resp.access_token
             /\ after.accessToken # before.accessToken
             /\ after.expiresAt = resp.expiresAt
             /\ after.refreshToken =
                  IF resp.refresh_token # None THEN Val(resp.refresh_token)
                  ELSE given.refreshToken
             /\ \A v \in Users \ {u} : user_tokens'[v] = user_tokens[v] ]_vars

\* C13 witness: a refresh whose response carried no refresh token has been
\* stored with the refresh token the step had loaded, another run of the
\* same user having refreshed the credential as well
C13_Witness ==
  \E r \in RunIds, other \in RunIds :
    /\ r # other /\ params[r].userId = params[other].userId
    /\ Awaiting(call, r, {"DB.update user_tokens"}) /\ Val(call).err = None
    /\ Val(tokens[r]).refresh_token = None
    /\ Val(user_tokens[params[r].userId]).accessToken = Val(tokens[r]).access_token
    /\ Val(user_tokens[params[r].userId]).refreshToken = 1
    /\ \E ev \in RemoteOf(other) : ev.accessToken > 1 /\ ev.accessToken # Val(tokens[r]).access_token

\* what the engine does next for instance r: the next await of the callback
\* in progress, or the return of run()
Step(r) ==
  \/ ExtractGetImage(r)
  \/ ExtractVision(r)
  \/ ValidateEvent(r)
  \/ CheckConflicts(r)
  \/ CreateGetToken(r)
  \/ RefreshFetch(r)
  \/ RefreshUpdate(r)
  \/ CreateEvent(r)
  \/ SaveInsert(r)
  \/ SaveDeleteImage(r)
  \/ SaveDeleteCache(r)
  \/ Return(r)

\* the awaits a callback at position p still has before it, itself included
AwaitsLeft(p) ==
  CASE p \in {"s4_token"} -> 4
    [] p \in {"s4_refresh", "s5_insert"} -> 3
    [] p \in {"s1_get", "s4_update", "s5_imgdel"} -> 2
    [] p \in {"s1_vision", "s2_validate", "s3_query", "s4_create", "s5_kvdel",
              "return"} -> 1
    [] OTHER -> 0

\* what instance r can still do, as a number: the restarts the engine has
\* left, then the steps not completed, then the retries the step in progress
\* has left, then the awaits its callback has left; nothing once it has ended
Rank(r) ==
  IF pc[r] \in {"complete", "errored"} THEN 0
  ELSE ((((MaxRestarts - restarts[r]) * (NumSteps + 1)
            + Cardinality({ i \in 1..NumSteps : ~Done(r, i) }))
           * (RetryLimit + 1)
          + (RetryLimit - attempts[r])) * 5)
       + AwaitsLeft(pc[r])

\* C14: every run terminates: whatever fails and however often the engine
\* restarts it, a run that has not ended can always take a next step (it is
\* never stuck short of success or a terminal error), and every step and
\* every restart strictly lowers a natural number, Rank, which is 0 exactly
\* in the ended runs; so no run stays in a non-terminal state forever, the
\* retries of a step being counted against the maximum attempt count.
C14_EveryRunTerminates ==
  /\ [] (\A r \in runs :
           /\ Rank(r) \in Nat
           /\ Rank(r) = 0 <=> pc[r] \in {"complete", "errored"}
           /\ pc[r] \notin {"complete", "errored"} => ENABLED Step(r)
           /\ attempts[r] <= RetryLimit)
  /\ [][ \A r \in runs :
           IF pc'[r] # pc[r] \/ (call' # None /\ Val(call').run = r)
             THEN Rank(r)' < Rank(r)
             ELSE Rank(r)' = Rank(r) ]_vars

\* C14 witness: a run has errored after using up the retries of a step, and
\* had been restarted before
C14_Witness ==
  \E r \in RunIds :
    pc[r] = "errored" /\ attempts[r] = RetryLimit /\ restarts[r] = MaxRestarts

\* C15: the recovery cache entry of a run is created when validate-event
\* succeeds, under the key of the run's instance id, holding the
\* CanonicalEvent with a 24-hour expiry, and no entry exists for the run
\* before that; when the run has completed successfully the entry has been
\* deleted.  So: an entry under the run's key implies validate-event has
\* completed and is the validated event with expirationTtl 86400 s; from the
\* completion of validate-event to that of save-and-cleanup the entry is
\* there; a completed run has no entry; and the entry appears only by the
\* put of validate-event and disappears only by the delete of
\* save-and-cleanup.
C15_RecoveryCacheLifecycle ==
  /\ [] (\A r \in RunIds :
           LET entry == SESSION_KV[<< "workflow", r, "event" >>] IN
             /\ ~Done(r, 2) => entry = None
             /\ entry # None =>
                  /\ Val(entry).value = JSONstringify(Val(memo[r][2]))
                  /\ Val(entry).value =
                       JSONstringify(validateAndNormalizeEvent(
                                       Val(memo[r][1]), params[r].timezone).event)
                  /\ Val(entry).expirationTtl = 24 * 60 * 60
             /\ (Done(r, 2) /\ ~Done(r, 5)) => entry # None
             /\ (pc[r] = "complete" \/ output[r] # None) => entry = None)
  /\ [][ \A r \in RunIds :
           LET key == << "workflow", r, "event" >> IN
             /\ (SESSION_KV[key] = None /\ SESSION_KV'[key] # None) =>
                  /\ call' = Some([run |-> r, op |-> "SESSION_KV.put", err |-> None])
                  /\ ~Done(r, 2) /\ Done(r, 2)'
             /\ (SESSION_KV[key] # None /\ SESSION_KV'[key] = None) =>
                  /\ call' = Some([run |-> r, op |-> "SESSION_KV.delete", err |-> None])
                  /\ Done(r, 5)' ]_vars

\* C15 witness: a run has completed: validate-event had written its entry,
\* save-and-cleanup inserted the record and deleted the entry
C15_Witness ==
  \E r \in RunIds :
    /\ pc[r] = "complete"
    /\ SESSION_KV[KvKey(r)] = None
    /\ Done(r, 2)
    /\ RowsOf(r) # {}

(***************************************************************************)
(* The absolute instant a timezone-qualified date-time text denotes, in    *)
(* seconds since 2000-01-01T00:00:00Z (years from 2000 on).                *)
(***************************************************************************)
IsLeap(y) == (y % 4 = 0 /\ y % 100 # 0) \/ y % 400 = 0

RECURSIVE DaysBeforeMonth(_, _)
DaysBeforeMonth(y, m) ==
  IF m <= 1 THEN 0 ELSE DaysBeforeMonth(y, m - 1) + DaysIn(y, m - 1)

DayNumber(date) ==
  (date.y - 2000) * 365 + Cardinality({ k \in 2000..(date.y - 1) : IsLeap(k) })
    + DaysBeforeMonth(date.y, date.m) + (date.d - 1)

OffsetSeconds(off) ==
  (IF off.sign = "-" THEN -1 ELSE 1) * (off.h * 3600 + off.m * 60)

Instant(dt) ==
  DayNumber(dt.date) * 86400 + dt.h * 3600 + dt.mi * 60 + dt.s
    - OffsetSeconds(dt.off)

\* the stored record e overlaps the window from start to end, the touching
\* boundaries excluded
Overlaps(e, start, end) ==
  /\ Instant(e.start_datetime) < Instant(end)
  /\ Instant(e.end_datetime) > Instant(start)

Overlapping ==
  { e \in events :
      /\ e.user_id = Val(probe).userId
      /\ Overlaps(e, Val(probe).startDateTime, Val(probe).endDateTime) }

\* the rows a returned list stands for
Returned(list) ==
  { e \in events : \E i \in 1..Len(list) :
                     list[i] = [ title         |-> e.title,
                                 start         |-> e.start_datetime,
                                 end           |-> e.end_datetime,
                                 googleEventId |-> e.google_event_id ] }

\* C17: the conflict query returns a stored event of the user exactly when
\* stored.start < candidate.end and stored.end > candidate.start on the
\* absolute instants (the result cap apart): every returned record is such a
\* stored event, and when no more than Limit of them exist all are returned.
C17_OverlapOnInstants ==
  (probe # None /\ Val(probe).fn = "checkCalendarConflicts"
     /\ Val(probe).out # None) =>
    LET list == Val(Val(probe).out) IN
      /\ Returned(list) \subseteq Overlapping
      /\ Cardinality(Returned(list)) = Len(list)
      /\ Cardinality(Overlapping) <= Limit => Overlapping \subseteq Returned(list)

\* C18: the returned list is ascending by stored start instant and holds at
\* most 10 records; when more than 10 stored events overlap, the 10 returned
\* are those with the earliest start instants.
C18_OrderedAndCapped ==
  (probe # None /\ Val(probe).fn = "checkCalendarConflicts"
     /\ Val(probe).out # None) =>
    LET list == Val(Val(probe).out) IN
      /\ Len(list) <= 10
      /\ \A i \in 1..Len(list), j \in 1..Len(list) :
           i < j => Instant(list[i].start) <= Instant(list[j].start)
      /\ Cardinality(Overlapping) > 10 =>
           /\ Len(list) = 10
           /\ \A e \in Overlapping \ Returned(list) :
                \A i \in 1..Len(list) :
                  Instant(list[i].start) <= Instant(e.start_datetime)

\* validateAndNormalizeEvent has returned an event for the probe's input
Normalized ==
  /\ probe # None
  /\ Val(probe).fn = "validateAndNormalizeEvent"
  /\ Val(probe).out # None
  /\ Val(Val(probe).out).ok

\* C19: every event the normalization returns has
\* startDateTime <= endDateTime, whatever the start/end dates and times of
\* the input; an input that would give start after end gets the validation
\* error instead of an event.
C19_StartNotAfterEnd ==
  Normalized =>
    LET event == Val(Val(probe).out).event IN
      Instant(event.startDateTime) <= Instant(event.endDateTime)

\* C20 as stated: the normalized event is all-day if and only if the raw
\* extraction has no start time, whatever its start date, end date and end
\* time.
C20_AllDayIffNoStartTimeText ==
  Normalized =>
    (Val(Val(probe).out).event.isAllDay <=> Val(probe).raw.start_time = None)

\* C20, amended: the normalized event is all-day if and only if the raw
\* extraction has no start time that parses as a time of day (H:MM or
\* H[:MM] am/pm): none at all, or a text parseTime does not recognise;
\* whatever its start date, end date and end time.
C20_AllDayIffNoParsedStartTime ==
  Normalized =>
    LET raw == Val(probe).raw IN
      Val(Val(probe).out).event.isAllDay <=>
        (raw.start_time = None \/ Val(raw.start_time).fmt \notin {"24h", "ampm"})

\* C20 witness: an all-day event returned for an extraction that has a start
\* date, an end date and an end time but no start time
C20_Witness ==
  /\ Normalized
  /\ Val(Val(probe).out).event.isAllDay
  /\ Val(probe).raw.start_time = None
  /\ Val(probe).raw.start_date = Some([fmt |-> "iso", y |-> 2025, m |-> 3, d |-> 5])
  /\ Val(probe).raw.end_date = Some([fmt |-> "slash", m |-> 3, d |-> 6, y |-> 25, ylen |-> 2])
  /\ Val(probe).raw.end_time = Some([fmt |-> "24h", h |-> 9, m |-> 0])

\* C21: the result of a successful run has success = true, the
\* CanonicalEvent validate-event produced (the normalization of what
\* extract-event-data returned) and the calendar link step 4 returned (the
\* link of a remote event the run created); its conflicts field is present
\* exactly when the list check-conflicts returned is non-empty, and is then
\* that list.  A run has a result exactly when it is complete.
C21_SuccessResult ==
  \A r \in RunIds :
    /\ output[r] # None <=> pc[r] = "complete"
    /\ output[r] # None =>
         LET result == Val(output[r]) IN
           /\ result.success = TRUE
           /\ result.event = Val(memo[r][2])
           /\ result.event =
                validateAndNormalizeEvent(Val(memo[r][1]), params[r].timezone).event
           /\ result.calendarLink = Val(memo[r][4]).htmlLink
           /\ \E ev \in RemoteOf(r) : result.calendarLink = << "htmlLink", ev.id >>
           /\ result.conflicts # None <=> Len(Val(memo[r][3])) > 0
           /\ result.conflicts # None => Val(result.conflicts) = Val(memo[r][3])

\* C21 witness: a completed run whose result carries a conflict list
C21_Witness ==
  \E r \in RunIds :
    /\ pc[r] = "complete"
    /\ Val(output[r]).conflicts # None
    /\ Len(Val(Val(output[r]).conflicts)) > 0

\* the event a JSON text of the recovery cache reads back as (an absent
\* location is undefined)
JSONparse(text) ==
  LET at(name) == CHOOSE i \in 1..Len(text) : text[i][1] = name
      has(name) == \E i \in 1..Len(text) : text[i][1] = name
  IN [ title         |-> text[at("title")][2],
       startDateTime |-> text[at("startDateTime")][2],
       endDateTime   |-> text[at("endDateTime")][2],
       isAllDay      |-> text[at("isAllDay")][2],
       timezone      |-> text[at("timezone")][2],
       location      |-> IF has("location") THEN Some(text[at("location")][2])
                         ELSE None,
       description   |-> text[at("description")][2] ]

\* C22: the StoredEventRecord is never re-derived: title, start, end,
\* isAllDay (as 1/0), location and description of every row a run inserts
\* are those of the CanonicalEvent validate-event produced, and that same
\* event is the one every create call of the run sent to the calendar
\* service (title as summary; the dates of an all-day event, the date-times
\* of a timed one) and the one the recovery cache entry of the run reads
\* back as.
C22_RecordIsCanonicalEvent ==
  \A r \in RunIds :
    Done(r, 2) =>
      LET event == Val(memo[r][2]) IN
        /\ event = validateAndNormalizeEvent(Val(memo[r][1]), params[r].timezone).event
        /\ \A e \in RowsOf(r) :
             /\ e.title = event.title
             /\ e.start_datetime = event.startDateTime
             /\ e.end_datetime = event.endDateTime
             /\ e.is_all_day = (IF event.isAllDay THEN 1 ELSE 0)
             /\ e.location = event.location
             /\ e.description = event.description
        /\ \A ev \in RemoteOf(r) :
             /\ ev.body.summary = event.title
             /\ ev.body.location = event.location
             /\ ev.body.description = event.description
             /\ ev.body.start.timeZone = event.timezone
             /\ IF event.isAllDay
                  THEN /\ ev.body.start.date = event.startDateTime.date
                       /\ ev.body.end.date = event.endDateTime.date
                  ELSE /\ ev.body.start.dateTime = event.startDateTime
                       /\ ev.body.end.dateTime = event.endDateTime
        /\ SESSION_KV[KvKey(r)] # None =>
             JSONparse(Val(SESSION_KV[KvKey(r)]).value) = event

\* C22 witness: a run has inserted its record while the remote event and the
\* recovery cache entry are there, for an all-day event without location
C22_Witness ==
  \E r \in RunIds :
    /\ RowsOf(r) # {} /\ RemoteOf(r) # {} /\ SESSION_KV[KvKey(r)] # None
    /\ Val(memo[r][2]).isAllDay
    /\ \E e \in RowsOf(r) : e.is_all_day = 1 /\ e.location = None

\* the terminal events of a progress stream
Terminal(ev) == ev.step \in {"complete", "error"}

\* C23: the progress stream of a run carries 'started' first and only first,
\* then only 'processing' events, then one terminal event ('complete' or
\* 'error') which is the last event: never two terminal events, never both
\* kinds.  A 'complete' event is sent only for a run that has returned and
\* carries its return value.  After the terminal event the only thing the
\* stream does is close, a closed stream holds exactly one terminal event,
\* and nothing is written to it afterwards.
C23_OneTerminalOutcome ==
  /\ [](LET ev == stream.events
            n  == Len(ev)
        IN  /\ \A i \in 1..n : (ev[i].step = "started") <=> (i = 1)
            /\ \A i \in 1..n : Terminal(ev[i]) => i = n
            /\ \A i \in 1..n : i # 1 /\ i # n => ev[i].step = "processing"
            /\ \A i \in 1..n :
                 ev[i].step = "complete" =>
                   /\ pc[Streamed] = "complete"
                   /\ ev[i].result = output[Streamed]
            /\ (n > 0 /\ Terminal(ev[n])) <=> stream.pc \in {"close", "done"}
            /\ stream.closed <=> stream.pc = "done")
  /\ [][stream.closed => stream' = stream]_vars

\* a closed stream that carried 'processing' events and then the result
C23_Witness ==
  /\ stream.closed
  /\ Len(stream.events) >= 3
  /\ stream.events[2].step = "processing"
  /\ stream.events[Len(stream.events)].step = "complete"

\* C24: the raw extraction { title "Study Group", start_date "3/5/25",
\* start_time "2pm" } with timezone America/New_York normalizes to an event
\* with startDateTime 2025-03-05T14:00:00-05:00, endDateTime
\* 2025-03-05T15:00:00-05:00 and isAllDay false (and is not rejected).
C24_StudyGroupScenario ==
  ( /\ probe # None
    /\ Val(probe).fn = "validateAndNormalizeEvent"
    /\ Val(probe).raw = RawScenario
    /\ Val(probe).timezone = "America/New_York"
    /\ Val(probe).out # None ) =>
      /\ Val(Val(probe).out).ok
      /\ LET event == Val(Val(probe).out).event
             mar5  == [y |-> 2025, ylen |-> 4, m |-> 3, d |-> 5]
             minus5 == [sign |-> "-", h |-> 5, m |-> 0]
         IN  /\ event.startDateTime = DateTime(mar5, 14, 0, 0, minus5)
             /\ event.endDateTime = DateTime(mar5, 15, 0, 0, minus5)
             /\ event.isAllDay = FALSE

\* the scenario's extraction has been normalized for America/New_York
C24_Witness ==
  /\ Normalized
  /\ Val(probe).raw = RawScenario
  /\ Val(probe).timezone = "America/New_York"
  /\ Val(Val(probe).out).event.title = "Study Group"

\* a text field of the extraction that is missing or that nothing parses
Unparseable(text) == text = None \/ Val(text).fmt = "junk"

\* the extraction under normalization has no title and no date or time text
\* that parses
NothingParseable ==
  /\ probe # None
  /\ Val(probe).fn = "validateAndNormalizeEvent"
  /\ LET raw == Val(probe).raw
     IN  /\ raw.title = None
         /\ Unparseable(raw.start_date) /\ Unparseable(raw.end_date)
         /\ Unparseable(raw.start_time) /\ Unparseable(raw.end_time)

\* C25: normalizing a raw extraction with no parseable field never throws:
\* it returns an event titled "Untitled Event" with isAllDay true whose start
\* (00:00:00) and end (23:59:59) are both on the current day as getTodayDate
\* gives it, in any timezone.
C25_NothingParseableStillAnEvent ==
  (NothingParseable /\ Val(probe).out # None) =>
    /\ Val(Val(probe).out).ok
    /\ LET event == Val(Val(probe).out).event
       IN  /\ event.title = "Untitled Event"
           /\ event.isAllDay = TRUE
           /\ DatePart(event.startDateTime) = getTodayDate
           /\ DatePart(event.endDateTime) = getTodayDate
           /\ <<event.startDateTime.h, event.startDateTime.mi,
                event.startDateTime.s>> = <<0, 0, 0>>
           /\ <<event.endDateTime.h, event.endDateTime.mi,
                event.endDateTime.s>> = <<23, 59, 59>>

\* an event returned for an extraction whose date and time texts are all
\* present and all unparseable
C25_Witness ==
  /\ NothingParseable
  /\ Normalized
  /\ Val(probe).raw.start_date = Some([fmt |-> "junk"])
  /\ Val(probe).raw.end_date = Some([fmt |-> "junk"])
  /\ Val(probe).raw.start_time = Some([fmt |-> "junk"])
  /\ Val(probe).raw.end_time = Some([fmt |-> "junk"])

\* C30: for a returned timed event whose extraction has no end time that
\* parses, the end time of day is the start's hour plus one modulo 24 with
\* the start's minutes (seconds 00), and when no end date parses the end is
\* on the start's date, also when the hour wraps past midnight: "3:00 PM"
\* gives 16:00 on the same day, 23:30 gives 00:30 on the start date (the
\* wrapped end is a time of day, so the event is returned, not rejected).
C30_DefaultEndTime ==
  /\ ( /\ probe # None
       /\ Val(probe).fn = "validateAndNormalizeEvent"
       /\ Val(probe).out # None
       /\ Val(probe).raw.start_time = Some([fmt |-> "24h", h |-> 23, m |-> 30])
       /\ parseTime(Val(probe).raw.end_time) = None ) => Val(Val(probe).out).ok
  /\ Normalized =>
    LET raw   == Val(probe).raw
        event == Val(Val(probe).out).event
        start == event.startDateTime
        end   == event.endDateTime
    IN  (~event.isAllDay /\ parseTime(raw.end_time) = None) =>
          /\ end.h = (start.h + 1) % 24
          /\ end.mi = start.mi
          /\ end.s = 0
          /\ end.off = start.off
          /\ parseDate(raw.end_date, TodayDate.y) = None =>
               end.date = start.date
          /\ (raw.start_time = Some([fmt |-> "ampm", h |-> 3, m |-> Some(0),
                                     pm |-> TRUE])
                => <<end.h, end.mi>> = <<16, 0>>)
          /\ (raw.start_time = Some([fmt |-> "24h", h |-> 23, m |-> 30])
                => <<end.h, end.mi>> = <<0, 30>>)

\* the event of an extraction with start time 23:30 and neither end date nor
\* end time: it ends at 00:30 on its start date
C30_Witness ==
  /\ Normalized
  /\ Val(probe).raw.start_time = Some([fmt |-> "24h", h |-> 23, m |-> 30])
  /\ Val(probe).raw.end_time = None
  /\ Val(probe).raw.end_date = None
  /\ LET event == Val(Val(probe).out).event
     IN  /\ <<event.endDateTime.h, event.endDateTime.mi>> = <<0, 30>>
         /\ event.endDateTime.date = event.startDateTime.date

\* instance r is inside refreshOAuthToken
Refreshing(r) == r \in runs /\ pc[r] \in {"s4_refresh", "s4_update"}

\* C26: concurrent refreshes of one user's credential are not serialised and
\* the last write wins.  A run inside refreshOAuthToken can always take its
\* next step, whatever position another run of the same user is in (also
\* inside refreshOAuthToken); every successful UPDATE replaces the stored
\* credential by the record the updating run computed from its own response,
\* whatever was stored, so the stored credential is that of the last UPDATE;
\* and every create call of a run carries the access token of the credential
\* that run holds (the one it loaded, or the one its own refresh returned),
\* also when the stored credential has a different access token by then.
C26_LastWriteWins ==
  /\ [](\A r \in RunIds :
          Refreshing(r) => ENABLED (RefreshFetch(r) \/ RefreshUpdate(r)))
  /\ [][ \A r \in RunIds :
           /\ (Awaiting(call', r, {"DB.update user_tokens"})
                 /\ Val(call').err = None) =>
                /\ user_tokens'[params[r].userId] = token'[r]
                /\ Val(token'[r]).accessToken = Val(tokens[r]).access_token
                /\ Val(token'[r]).expiresAt = Val(tokens[r]).expiresAt
           /\ (Awaiting(call', r, {"fetch calendar"})
                 /\ remoteEvents' # remoteEvents) =>
                \E ev \in remoteEvents' \ remoteEvents :
                  /\ ev.run = r
                  /\ ev.accessToken = Val(token[r]).accessToken
                  /\ tokens[r] # None =>
                       ev.accessToken = Val(tokens[r]).access_token ]_vars

\* two runs of one user have both refreshed: one has just published with the
\* access token its own refresh obtained while the stored credential is the
\* one the other run's later UPDATE wrote
C26_Witness ==
  \E r \in RunIds, other \in RunIds :
    /\ r # other /\ params[r].userId = params[other].userId
    /\ Awaiting(call, r, {"fetch calendar"}) /\ Val(call).err = None
    /\ \E ev \in RemoteOf(r) :
         /\ ev.accessToken > 1
         /\ Val(user_tokens[params[r].userId]).accessToken > 1
         /\ ev.accessToken # Val(user_tokens[params[r].userId]).accessToken
    /\ pc[other] # "s4_update"

\* C27: under any interleaving of concurrent runs, a step of run r changes no
\* entry of the recovery cache other than the one under
\* workflow:<r's instance id>:event: every put and every delete it performs
\* uses that key, the cache changes only by a run's put in validate-event or
\* its delete in save-and-cleanup, and the entry under a run's key always
\* holds that run's own event, another run's entry being present or not.
C27_CacheKeyIsOwn ==
  /\ [](\A r \in RunIds :
          LET entry == SESSION_KV[<< "workflow", r, "event" >>] IN
            entry # None =>
              /\ r \in runs /\ Done(r, 2)
              /\ Val(entry).value = JSONstringify(Val(memo[r][2])))
  /\ [][ /\ SESSION_KV' # SESSION_KV =>
              /\ call' # None
              /\ Val(call').op \in {"SESSION_KV.put", "SESSION_KV.delete"}
         /\ \A r \in RunIds :
              (call' # None /\ Val(call').run = r) =>
                \A k \in KvKeys \ { << "workflow", r, "event" >> } :
                  SESSION_KV'[k] = SESSION_KV[k] ]_vars

\* one run has just deleted its entry while the entry of the other run, a
\* different event, is still in the cache
C27_Witness ==
  \E r \in RunIds, other \in RunIds :
    /\ r # other
    /\ Awaiting(call, r, {"SESSION_KV.delete"}) /\ Val(call).err = None
    /\ SESSION_KV[KvKey(r)] = None
    /\ SESSION_KV[KvKey(other)] # None
    /\ memo[r][2] # memo[other][2]

\* save-and-cleanup of instance r has failed for good
SaveFailed(r) ==
  /\ pc[r] = "errored"
  /\ error[r] # None
  /\ Val(error[r]).step = "save-and-cleanup"

C29_InsertThenDeletes ==
  /\ [](\A r \in RunIds :
          (r \in runs /\ RowsOf(r) = {}) =>
            /\ Done(r, 1) => imageKeyOf(r) \in IMAGES
            /\ Done(r, 2) => SESSION_KV[<< "workflow", r, "event" >>] # None
            /\ pc[r] \notin {"s5_imgdel", "s5_kvdel", "return", "complete"})
  /\ [][ \A r \in RunIds :
           /\ (pc'[r] = "s5_imgdel" /\ pc[r] # "s5_imgdel") =>
                /\ pc[r] = "s5_insert"
                /\ call' = Some([run |-> r, op |-> "DB.insert events",
                                 err |-> None])
                /\ RowsOf(r)' # {}
           /\ (pc'[r] = "s5_kvdel" /\ pc[r] # "s5_kvdel") =>
                /\ pc[r] = "s5_imgdel"
                /\ call' = Some([run |-> r, op |-> "IMAGES.delete",
                                 err |-> None])
           /\ (imageKeyOf(r) \in IMAGES /\ imageKeyOf(r) \notin IMAGES') =>
                /\ call' = Some([run |-> r, op |-> "IMAGES.delete",
                                 err |-> None])
                /\ RowsOf(r) # {}
                /\ SESSION_KV[<< "workflow", r, "event" >>] # None
           /\ (SESSION_KV[<< "workflow", r, "event" >>] # None
                 /\ SESSION_KV'[<< "workflow", r, "event" >>] = None) =>
                /\ call' = Some([run |-> r, op |-> "SESSION_KV.delete",
                                 err |-> None])
                /\ RowsOf(r) # {}
                /\ imageKeyOf(r) \notin IMAGES ]_vars

\* a run whose INSERT failed on every attempt: it has errored in
\* save-and-cleanup with no record, its image and its cache entry still there
C29_Witness ==
  \E r \in RunIds :
    /\ SaveFailed(r)
    /\ Val(error[r]).message = "D1 insert failed"
    /\ RowsOf(r) = {}
    /\ imageKeyOf(r) \in IMAGES
    /\ SESSION_KV[KvKey(r)] # None

\* C31: a returned all-day event starts at 00:00:00 of its start date and
\* ends at 23:59:59 of its end date (the parsed end date, or the start date),
\* and toGoogleCalendarEvent gives it start and end fields { date, timeZone }
\* holding those dates, with no dateTime; a timed event gets
\* { dateTime, timeZone } holding its two instants, with no date; in both
\* shapes timeZone is the timezone identifier of the event.
C31_AllDayAndTimedShapes ==
  Normalized =>
    LET raw   == Val(probe).raw
        event == Val(Val(probe).out).event
        sd    == parseDate(raw.start_date, TodayDate.y)
        ed    == parseDate(raw.end_date, TodayDate.y)
        startDate == IF sd = None THEN getTodayDate ELSE Val(sd)
        endDate   == IF ed = None THEN startDate ELSE Val(ed)
    IN  /\ event.isAllDay =>
             /\ event.startDateTime =
                  [date |-> startDate, h |-> 0, mi |-> 0, s |-> 0,
                   off |-> getTimezoneOffset(Val(probe).timezone)]
             /\ event.endDateTime =
                  [date |-> endDate, h |-> 23, mi |-> 59, s |-> 59,
                   off |-> getTimezoneOffset(Val(probe).timezone)]
        /\ Val(probe).google # None =>
             LET g == Val(Val(probe).google) IN
               /\ g.start.timeZone = Val(probe).timezone
               /\ g.end.timeZone = Val(probe).timezone
               /\ event.isAllDay =>
                    /\ DOMAIN g.start = {"date", "timeZone"}
                    /\ DOMAIN g.end = {"date", "timeZone"}
                    /\ g.start.date = startDate
                    /\ g.end.date = endDate
               /\ ~event.isAllDay =>
                    /\ DOMAIN g.start = {"dateTime", "timeZone"}
                    /\ DOMAIN g.end = {"dateTime", "timeZone"}
                    /\ g.start.dateTime = event.startDateTime
                    /\ g.end.dateTime = event.endDateTime

\* an all-day event from 2025-03-05 to 2025-03-06 has been converted
C31_Witness ==
  /\ Normalized
  /\ Val(probe).google # None
  /\ Val(Val(probe).out).event.isAllDay
  /\ Val(Val(probe).google).start.date = [y |-> 2025, ylen |-> 4, m |-> 3, d |-> 5]
  /\ Val(Val(probe).google).end.date = [y |-> 2025, ylen |-> 4, m |-> 3, d |-> 6]

\* parseTime has returned for the probe's text
TimeParsed ==
  /\ probe # None
  /\ Val(probe).fn = "parseTime"
  /\ Val(probe).out # None

\* C32: for a text H[:MM] am|pm (one or two hour digits, two minute digits
\* if any, blanks allowed around and before the marker, any letter case)
\* parseTime returns HH:MM where MM is the text's minutes, or 00, and HH is
\* 12 for 12pm, 00 for 12am, H + 12 for any other pm hour and H for any
\* other am hour; for a text that matches neither that pattern nor H:MM of
\* the 24-hour pattern it returns null, and for no other.
C32_NoonMidnightRule ==
  TimeParsed =>
    LET p        == Val(probe)
        out      == Val(p.out)
        hourOk   == Len(p.hours.text) <= 2
        minsOk   == p.mins = << >> \/ Len(p.mins) = 3
        twelve   == hourOk /\ minsOk /\ p.meridiem \in {"am", "pm"}
        twentyfour == hourOk /\ Len(p.mins) = 3 /\ p.meridiem = "none"
        h        == p.hours.n
        expected == IF p.meridiem = "pm" THEN (IF h = 12 THEN 12 ELSE h + 12)
                    ELSE (IF h = 12 THEN 0 ELSE h)
    IN  /\ twelve =>
             /\ out # None
             /\ Len(Val(out)) = 5
             /\ Val(out)[3] = ":"
             /\ 10 * DigitVal(Val(out)[1]) + DigitVal(Val(out)[2]) = expected
             /\ SubSeq(Val(out), 4, 5) =
                  (IF p.mins = << >> THEN << "0", "0" >> ELSE Tail(p.mins))
        /\ out = None <=> ~(twelve \/ twentyfour)

\* parseTime has returned 00:30 for " 12:30 AM"
C32_Witness ==
  /\ TimeParsed
  /\ Val(probe).timeStr =
       Some(<< " ", "1", "2", ":", "3", "0", " ", "A", "M" >>)
  /\ Val(Val(probe).out) = Some(<< "0", "0", ":", "3", "0" >>)

\* parseDate has returned for the probe's text
DateParsed ==
  /\ probe # None
  /\ Val(probe).fn = "parseDate"
  /\ Val(probe).out # None

\* C33: parseDate returns a text YYYY-MM-DD as it is (less the blanks around
\* it), the ISO pattern being tried first; for a text M/D/YY it returns
\* YYYY-MM-DD whose year is 2000 + YY and whose month and day are M and D
\* written with two digits.
C33_IsoUnchangedSlashYear2000 ==
  DateParsed =>
    LET p   == Val(probe)
        out == Val(p.out)
    IN  /\ p.kind = "iso" =>
             out = Some(p.year \o << "-" >> \o p.month \o << "-" >> \o p.day)
        /\ (p.kind = "slash" /\ Len(p.year) = 2) =>
             /\ out # None
             /\ Len(Val(out)) = 10
             /\ Val(out)[5] = "-" /\ Val(out)[8] = "-"
             /\ IsDigits(SubSeq(Val(out), 1, 4), 4, 4)
             /\ parseInt(SubSeq(Val(out), 1, 4)) = 2000 + parseInt(p.year)
             /\ IsDigits(SubSeq(Val(out), 6, 7), 2, 2)
             /\ parseInt(SubSeq(Val(out), 6, 7)) = parseInt(p.month)
             /\ IsDigits(SubSeq(Val(out), 9, 10), 2, 2)
             /\ parseInt(SubSeq(Val(out), 9, 10)) = parseInt(p.day)

\* parseDate has returned 2025-03-05 for "3/5/25"
C33_Witness ==
  /\ DateParsed
  /\ Val(probe).dateStr = Some(<< "3", "/", "5", "/", "2", "5" >>)
  /\ Val(Val(probe).out) =
       Some(<< "2", "0", "2", "5", "-", "0", "3", "-", "0", "5" >>)

\* the conflict list check-conflicts of instance r returned names a record
\* instance o has inserted
Reports(r, o) ==
  \E e \in RowsOf(o) :
    \E i \in 1..Len(Val(memo[r][3])) :
      Val(memo[r][3])[i].googleEventId = e.google_event_id

WindowsOverlap(r, o) ==
  LET a == Val(memo[r][2])
      b == Val(memo[o][2])
  IN  /\ a.startDateTime.off = b.startDateTime.off
      /\ Instant(a.startDateTime) < Instant(b.endDateTime)
      /\ Instant(a.endDateTime) > Instant(b.startDateTime)

C35_ConflictsPerUser ==
  (probe # None /\ Val(probe).fn = "checkCalendarConflicts"
     /\ Val(probe).out # None) =>
    LET p    == Val(probe)
        list == Val(p.out)
        own  == { e \in events : e.user_id = p.userId }
        foreign == SpecialRows \cup AnonymousRows \cup Filler(1)
    IN  /\ \A i \in 1..Len(list) :
             /\ \E e \in own : list[i].googleEventId = e.google_event_id
             /\ \A e \in events \ own : list[i].googleEventId # e.google_event_id
        /\ \A O \in SUBSET { e \in foreign : e.user_id # p.userId } :
             checkCalendarConflicts(own \cup O, p.userId, p.startDateTime,
                                    p.endDateTime) = list

\* a query for u1 over a store that holds overlapping records of u1 and of
\* anonymous uploads has returned records, none of them anonymous
C35_Witness ==
  /\ probe # None /\ Val(probe).fn = "checkCalendarConflicts"
  /\ Val(probe).out # None
  /\ Val(probe).userId = "u1"
  /\ AnonymousRows \subseteq events
  /\ Len(Val(Val(probe).out)) > 0
  /\ Val(probe).startDateTime = DateTime(TodayDate, 10, 0, 0, EST)

\* C36: when the token endpoint rejects the refresh request, refreshOAuthToken
\* throws without writing: the stored credentials (access token, refresh
\* token, expiry) are exactly as before the call, no token has been issued,
\* and the attempt of create-calendar-event ends there, before any create
\* call: no remote event appears, and the run is either back at the start of
\* the step for a retry, holding no credential, or errored with the
\* refresh's error.
C36_RejectedRefreshWritesNothing ==
  [][ \A r \in RunIds :
        (Failing(call', r, {"fetch token"}) /\ call' # call) =>
          /\ pc[r] = "s4_refresh"
          /\ user_tokens' = user_tokens
          /\ issued' = issued
          /\ remoteEvents' = remoteEvents
          /\ token'[r] = None /\ tokens'[r] = None
          /\ ~Done(r, 4)'
          /\ \/ pc'[r] = "s4_token"
             \/ /\ pc'[r] = "errored"
                /\ error'[r] = Some([ step    |-> "create-calendar-event",
                                      message |-> "Failed to refresh OAuth token" ]) ]_vars

\* a run has errored on a rejected refresh: the stored credential is the
\* expired one it started with and no remote event exists
C36_Witness ==
  \E r \in RunIds :
    /\ Failing(call, r, {"fetch token"})
    /\ pc[r] = "errored"
    /\ user_tokens[params[r].userId] # None
    /\ Val(user_tokens[params[r].userId]).accessToken = 1
    /\ Val(user_tokens[params[r].userId]).expiresAt < now
    /\ RemoteOf(r) = {}

\* C37: an attempt of create-calendar-event that follows a successful
\* refresh (the stored credential carries an access token the endpoint
\* issued) loads the rewritten credential from the store, and if its expiry
\* has not passed goes on to the create call with that credential: the token
\* endpoint is called again only by an attempt that loaded an expired
\* credential.
C37_RetryReusesRefreshedCredential ==
  [][ \A r \in RunIds :
        LET stored == user_tokens[params[r].userId] IN
          /\ ( /\ Awaiting(call', r, {"DB.select user_tokens"})
               /\ Val(call').err = None
               /\ pc[r] = "s4_token"
               /\ stored # None
               /\ Val(stored).accessToken > 1
               /\ ~(Val(stored).expiresAt < now) ) =>
                 /\ token'[r] = stored
                 /\ pc'[r] = "s4_create"
                 /\ issued' = issued
          /\ (pc'[r] = "s4_refresh" /\ pc[r] # "s4_refresh") =>
                 /\ token'[r] = stored
                 /\ Val(stored).expiresAt < now ]_vars

\* the retry of an attempt that refreshed and then failed in the create call
\* has loaded the refreshed credential and stands before the create call,
\* one token issued in all
C37_Witness ==
  \E r \in RunIds :
    /\ Awaiting(call, r, {"DB.select user_tokens"})
    /\ attempts[r] > 0
    /\ pc[r] = "s4_create"
    /\ token[r] = user_tokens[params[r].userId]
    /\ Val(token[r]).accessToken = 2
    /\ issued = 2

\* C38: the progress stream carries an 'error' event only when the instance
\* has ended in failure and a 'complete' event only when it has completed: no
\* terminal event is written for an instance that has not ended.
C38_TerminalEventOnlyForEndedInstance ==
  \A i \in 1..Len(stream.events) :
    /\ stream.events[i].step = "error" => pc[Streamed] = "errored"
    /\ stream.events[i].step = "complete" => pc[Streamed] = "complete"


\* the callback request c has passed state verification and gone on to the
\* token exchange
Verified(c) ==
  auth.cb[c].pc \in {"exchange", "userinfo", "store", "session", "done", "failed"}

\* C39: a state issued by handleGoogleAuth is single-use: no two callback
\* requests carrying the same state both pass state verification and go on
\* to the token exchange, even when served concurrently; and a request whose
\* state is unknown or already consumed is answered 400 having obtained no
\* tokens and created no session.
C39_StateIsSingleUse ==
  /\ \A c, d \in Callbacks :
       (c # d /\ Verified(c) /\ Verified(d))
         => auth.cb[c].state # auth.cb[d].state
  /\ \A c \in Callbacks :
       auth.cb[c].pc = "invalid"
         => /\ auth.cb[c].tokens = None
            /\ \A s \in auth.sessions : s.by # c

=============================================================================
